---- MODULE Spec2Model ----
(***************************************************************************)
(* Training pipeline orchestrator of ai-model-tuning-nextjs-app.           *)
(*                                                                         *)
(* Part I  : the fine-tune job lifecycle (POST /api/fine-tune/jobs,        *)
(*           GET /api/fine-tune/jobs/[job_id], POST .../cancel) against a  *)
(*           remote provider, with the derived Bot status and the          *)
(*           parent/child enhancement chain.        Specification: Spec    *)
(* Part II : the dataset generation job runner (POST                       *)
(*           /api/datasets/generate, processGenerationJob, generateBatch,  *)
(*           createExampleHash, convertToJSONL) and PATCH /api/datasets.   *)
(*                                   Specifications: SpecGen, SpecGenPatch *)
(*                                                                         *)
(* Further specifications: SpecBotUpdate (Part I with PATCH                *)
(* /api/bots/[bot_id]), SpecScenario (a run over a fixed stream of         *)
(* examples), SpecTwoJobs (two interleaved generation jobs), SpecBatch     *)
(* (generateBatch on its own).                                             *)
(*                                                                         *)
(* Part III: the accuracy evaluation (POST /api/fine-tune/test-model,      *)
(*           testModelWithExamples, calculateSimilarity,                   *)
(*           calculateMetrics).                    Specification: SpecEval *)
(*                                                                         *)
(* Further specifications: SpecEvalScenario (an evaluation of ten          *)
(* examples), SpecRequests (the three creating requests), SpecPublish      *)
(* (failing event publishing), SpecHash (createExampleHash on variants),   *)
(* SpecConcurrent (one job reconciled by several callers), SpecTimed (the  *)
(* same with the phase timestamps), SpecAutoTest (the automatic            *)
(* evaluation after a succeeded job), SpecCalls (a run with its            *)
(* generateBatch calls written down), SpecLive (the same run, given the    *)
(* processor until it returns), SpecData (a run that only its data can     *)
(* fail), SpecLongRun (a run of fifty batches).                            *)
(***************************************************************************)
EXTENDS Integers, Sequences, FiniteSets, TLC

VARIABLES
    jobs,           \* FineTuneJob records in creation order; job_id = index
    bots,           \* Bot records by bot_id
    remote,         \* the provider's status of the provider job of each job_id
    terminalOrder,  \* history: job_ids in the order their local status became terminal
    response,       \* what the last handler call was given and what it returned
    existing,       \* content of the dataset completed before the generation job
    ds,             \* the Dataset record of the generation job
    run,            \* processGenerationJob's position and local variables
    calls,          \* history: the generateBatch calls of the followed run (what
                    \* each returned and how many of its examples were accepted,
                    \* or the batch and the count each was made for)
    other,          \* a second generation job: its Dataset record and its
                    \* runner, while the first one has the processor
    report,         \* the TrainingReport record of the latest evaluation request
    eval,           \* POST /api/fine-tune/test-model: its position and locals
    reply,          \* the code the last generation or evaluation request returned
    inflight,       \* the reconciliations in progress, by caller: how far each
                    \* has come and what it fetched from the provider
    timing,         \* the phase timestamps of each job, the clock, and what each
                    \* reconciliation in progress read of the job before it asked
    autoTests       \* history: how often the automatic evaluation of each job
                    \* was triggered

ftVars == <<jobs, bots, remote, terminalOrder, response>>
genVars == <<existing, ds, run, other>>
evalVars == <<report, eval, reply>>
sideVars == <<timing, autoTests>>
vars == <<jobs, bots, remote, terminalOrder, response, existing, ds, run, calls, other,
          report, eval, reply, inflight, timing, autoTests>>

(***************************************************************************)
(* Bounds                                                                  *)
(***************************************************************************)
\* the number of fine-tune jobs ever created
MaxJobs == 2
\* the largest num_examples a generation request asks for
MaxTarget == 6
\* the most examples one provider completion carries
MaxResponseLen == 2
\* the most test examples in an evaluation request
MaxTests == 2
\* the most messages of an example whose fingerprint is compared
MaxMessages == 2
\* the callers that reconcile a job at the same time
MaxCallers == 2
\* the reconciliations whose time of day is followed
MaxClock == 3
\* the automatic evaluations of one job that are counted
MaxAutoTests == 2
\* the largest target of a run that is followed through all its batches
MaxLongRun == 250

(***************************************************************************)
(* Part I : fine-tune job lifecycle                                        *)
(***************************************************************************)
JobIds == 1..MaxJobs
\* the Bot whose jobs are followed
BotIds == {1}
\* a bot_id no Bot has; the null parent_job_id
UnknownBot == 0
NoJob == 0

NonTerminalStatuses == {"pending", "validating_files", "running"}
TerminalStatuses == {"succeeded", "failed", "cancelled"}
JobStatuses == NonTerminalStatuses \cup TerminalStatuses

\* model identifiers: null, the bot's configured base model, the provider's
\* fine-tuned model of provider job j
NoModel == <<>>
BaseModel == <<"base">>
FineTunedModel(j) == <<"ft", j>>

\* a guard that takes every job as submitted
HasHandleAlways(job) == TRUE

\* the provider's handle of job j, once the submission has returned one
HasHandle(job) == job.openai_job_id

Exists(job_id) == job_id \in 1..Len(jobs)

\* the job record prisma.fineTuneJob.create writes
NewJob(bot_id, parent_job_id) ==
    [ bot_id              |-> bot_id,
      parent_job_id       |-> parent_job_id,
      status              |-> "pending",
      openai_job_id       |-> FALSE,
      fine_tuned_model_id |-> NoModel,
      error               |-> FALSE ]

\* history of local terminal transitions, kept beside every job update
NoteTerminal(job_id, old, new) ==
    IF new \in TerminalStatuses /\ old \notin TerminalStatuses
    THEN Append(terminalOrder, job_id)
    ELSE terminalOrder

(* ------------------------------------------------------------------ *)
(* The provider.  A provider job advances on its own, forward only;   *)
(* succeeded is reached from running, failed from any live status.    *)
(* ------------------------------------------------------------------ *)
RemoteNext(s) ==
    CASE s = "pending"          -> {"validating_files", "failed"}
      [] s = "validating_files" -> {"running", "failed"}
      [] s = "running"          -> {"succeeded", "failed"}
      [] OTHER                  -> {}

ProviderAdvance(j) ==
    /\ Exists(j)
    /\ remote[j] \in NonTerminalStatuses
    /\ \E s \in RemoteNext(remote[j]) : remote' = [remote EXCEPT ![j] = s]
    /\ UNCHANGED <<jobs, bots, terminalOrder, response>>

\* the fine_tuned_model field of the provider's job object
RemoteModel(j) == IF remote[j] = "succeeded" THEN FineTunedModel(j) ELSE NoModel

\* the statuses the provider answers a successful creation with
RemoteInitialStatuses == {"pending", "validating_files"}

\* the provider accepts a cancel of a job that has not finished
ProviderAcceptsCancel(j) == remote[j] \in NonTerminalStatuses

(* ------------------------------------------------------------------ *)
(* POST /api/fine-tune/jobs                                           *)
(* ------------------------------------------------------------------ *)
RequestShapes == {"ok", "missing_fields", "invalid_training_method", "invalid_model_type"}
SubmitOutcomes == {"ok", "non200", "malformed", "threw"}

\* the last call: the handler, the job it was about, what the provider answered
\* and the code returned to the caller; submits counts the submissions it sent,
\* repeated says the call before it was the same reconciliation with the same
\* provider answer
Reply(op, job_id, code, given) ==
    [op |-> op, job_id |-> job_id, code |-> code, given |-> given, submits |-> 0,
     repeated |-> FALSE]

ValidationError(shape) ==
    CASE shape = "missing_fields"          -> "MISSING_REQUIRED_FIELDS"
      [] shape = "invalid_training_method" -> "INVALID_TRAINING_METHOD"
      [] OTHER                             -> "INVALID_MODEL_TYPE"

\* the job record after the provider's answer to the submission (or the thrown fetch)
JobAfterSubmit(created, outcome, remote_status) ==
    IF outcome = "ok"
    THEN [created EXCEPT !.openai_job_id = TRUE, !.status = remote_status]
    ELSE [created EXCEPT !.status = "failed", !.error = TRUE]

BotStatusAfterSubmitNoRevert(outcome) == "training"

\* the Bot is marked training before the submission; the non-200 branch and the
\* catch block revert it to inactive, the malformed-payload branch does not
BotStatusAfterSubmit(outcome) ==
    IF outcome \in {"non200", "threw"} THEN "inactive" ELSE "training"

SubmitReplyCode(outcome) ==
    CASE outcome = "ok"    -> "OK"
      [] outcome = "threw" -> "INTERNAL_ERROR"
      [] OTHER             -> "FINE_TUNE_JOB_CREATION_FAILED"

CreateJob(shape, bot_id, parent_job_id, outcome, remote_status) ==
    /\ Len(jobs) < MaxJobs
    /\ IF shape # "ok"
       THEN /\ response' = Reply("create", NoJob, ValidationError(shape), shape)
            /\ UNCHANGED <<jobs, bots, remote, terminalOrder>>
       ELSE IF bot_id \notin BotIds
       THEN /\ response' = Reply("create", NoJob, "BOT_NOT_FOUND", shape)
            /\ UNCHANGED <<jobs, bots, remote, terminalOrder>>
       ELSE IF parent_job_id # NoJob /\ ~Exists(parent_job_id)
       THEN \* connect to a missing parent: prisma.fineTuneJob.create throws
            /\ response' = Reply("create", NoJob, "INTERNAL_ERROR", "missing_parent")
            /\ UNCHANGED <<jobs, bots, remote, terminalOrder>>
       ELSE LET job_id == Len(jobs) + 1
                job == JobAfterSubmit(NewJob(bot_id, parent_job_id), outcome, remote_status)
            IN  /\ jobs' = Append(jobs, job)
                /\ bots' = [bots EXCEPT ![bot_id].status = BotStatusAfterSubmit(outcome)]
                /\ remote' = IF outcome = "ok"
                             THEN [remote EXCEPT ![job_id] = remote_status]
                             ELSE remote
                /\ terminalOrder' = NoteTerminal(job_id, "pending", job.status)
                /\ response' = [Reply("create", job_id, SubmitReplyCode(outcome), outcome)
                                   EXCEPT !.submits = 1]

(* ------------------------------------------------------------------ *)
(* GET /api/fine-tune/jobs/[job_id] : status reconciliation           *)
(* ------------------------------------------------------------------ *)
\* a reconciliation that writes the model only when the status is new
ReconciledJobFirstObserved(job, observed, model) ==
    [job EXCEPT !.status = observed,
                !.fine_tuned_model_id = IF job.status = observed THEN NoModel ELSE model,
                !.error = IF observed = "failed" THEN TRUE ELSE @]

\* updateData: the remote status and model are written over the local ones
ReconciledJob(job, observed, model) ==
    [job EXCEPT !.status = observed,
                !.fine_tuned_model_id = model,
                !.error = IF observed = "failed" THEN TRUE ELSE @]

\* a Bot update that activates the Bot and leaves its model alone
ReconciledBotStatusOnly(bot, observed, model) ==
    IF observed = "succeeded" /\ model # NoModel
    THEN [bot EXCEPT !.status = "active"]
    ELSE IF observed \in {"failed", "cancelled"}
    THEN [bot EXCEPT !.status = "inactive"]
    ELSE IF observed \in NonTerminalStatuses
    THEN [bot EXCEPT !.status = "training"]
    ELSE bot

\* a Bot update for a succeeded job only
ReconciledBotOnSuccessOnly(bot, observed, model) ==
    IF observed = "succeeded" /\ model # NoModel
    THEN [bot EXCEPT !.status = "active", !.model = model, !.fine_tuned_model_id = model]
    ELSE bot

\* the Bot derived from the status just observed
ReconciledBot(bot, observed, model) ==
    IF observed = "succeeded" /\ model # NoModel
    THEN [bot EXCEPT !.status = "active", !.model = model, !.fine_tuned_model_id = model]
    ELSE IF observed \in {"failed", "cancelled"}
    THEN [bot EXCEPT !.status = "inactive"]
    ELSE IF observed \in NonTerminalStatuses
    THEN [bot EXCEPT !.status = "training"]
    ELSE bot

PropagateToParentSkipped(js, job_id, observed, model) == js

\* a succeeded child writes its model into its parent's record (one level up)
PropagateToParent(js, job_id, observed, model) ==
    LET parent == js[job_id].parent_job_id
    IN  IF observed = "succeeded" /\ model # NoModel /\ parent # NoJob
        THEN [js EXCEPT ![parent].fine_tuned_model_id = model]
        ELSE js

GetJob(job_id, fetched) ==
    IF ~Exists(job_id)
    THEN /\ response' = Reply("get", job_id, "FINE_TUNE_JOB_NOT_FOUND", "none")
         /\ UNCHANGED <<jobs, bots, remote, terminalOrder>>
    ELSE IF ~HasHandle(jobs[job_id])
    THEN /\ response' = Reply("get", job_id, "OK", "no_handle")
         /\ UNCHANGED <<jobs, bots, remote, terminalOrder>>
    ELSE IF ~fetched
    THEN \* the provider call failed or answered non-200: the stored job is returned
         /\ response' = Reply("get", job_id, "OK", "unavailable")
         /\ UNCHANGED <<jobs, bots, remote, terminalOrder>>
    ELSE LET job == jobs[job_id]
             observed == remote[job_id]
             model == RemoteModel(job_id)
             updated == [jobs EXCEPT ![job_id] = ReconciledJob(job, observed, model)]
         IN  /\ jobs' = PropagateToParent(updated, job_id, observed, model)
             /\ bots' = [bots EXCEPT ![job.bot_id] = ReconciledBot(@, observed, model)]
             /\ terminalOrder' = NoteTerminal(job_id, job.status, observed)
             /\ response' = [Reply("get", job_id, "OK", observed) EXCEPT
                                !.repeated = /\ response.op = "get"
                                             /\ response.job_id = job_id
                                             /\ response.given = observed]
             /\ UNCHANGED remote

(* ------------------------------------------------------------------ *)
(* GET /api/fine-tune/jobs/[job_id] by several callers: the handler   *)
(* in the steps between which it awaits                               *)
(* ------------------------------------------------------------------ *)
Callers == 1..MaxCallers

IdleCaller == [pc |-> "idle", job_id |-> NoJob, observed |-> "none", model |-> NoModel]

NoneInFlight == inflight = [c \in Callers |-> IdleCaller]

\* the job is read and the provider asked; without a handle or an answer the
\* stored job is returned
FetchJob(c, job_id, fetched) ==
    /\ inflight[c].pc = "idle"
    /\ Exists(job_id)
    /\ IF HasHandle(jobs[job_id]) /\ fetched
       THEN /\ inflight' = [inflight EXCEPT ![c] =
                               [pc |-> "fetched", job_id |-> job_id,
                                observed |-> remote[job_id],
                                model |-> RemoteModel(job_id)]]
            /\ UNCHANGED response
       ELSE /\ response' = Reply("get", job_id, "OK",
                                 IF HasHandle(jobs[job_id]) THEN "unavailable"
                                 ELSE "no_handle")
            /\ UNCHANGED inflight
    /\ UNCHANGED <<jobs, bots, remote, terminalOrder>>

\* the job update with what was fetched
WriteJob(c) ==
    /\ inflight[c].pc = "fetched"
    /\ LET job_id == inflight[c].job_id
       IN  /\ jobs' = [jobs EXCEPT ![job_id] =
                          ReconciledJob(@, inflight[c].observed, inflight[c].model)]
           /\ terminalOrder' = NoteTerminal(job_id, jobs[job_id].status,
                                            inflight[c].observed)
    /\ inflight' = [inflight EXCEPT ![c].pc = "job_written"]
    /\ UNCHANGED <<bots, remote, response>>

\* the Bot update and the parent's, with what was fetched, and the reply
WriteBot(c) ==
    /\ inflight[c].pc = "job_written"
    /\ LET job_id == inflight[c].job_id
       IN  /\ bots' = [bots EXCEPT ![jobs[job_id].bot_id] =
                          ReconciledBot(@, inflight[c].observed, inflight[c].model)]
           /\ jobs' = PropagateToParent(jobs, job_id, inflight[c].observed,
                                        inflight[c].model)
           /\ response' = Reply("get", job_id, "OK", inflight[c].observed)
    /\ inflight' = [inflight EXCEPT ![c] = IdleCaller]
    /\ UNCHANGED <<remote, terminalOrder>>

(* ------------------------------------------------------------------ *)
(* GET /api/fine-tune/jobs/[job_id]: the phase timestamps             *)
(* ------------------------------------------------------------------ *)
\* a timestamp column that is null; new Date() of the reconciliation that
\* was the n-th to get an answer; the provider's created_at of job j
NoTime == <<>>
Now(n) == <<"now", n>>
CreatedAt(j) == <<"created_at", j>>

NoPhases == [validation_started_at |-> NoTime, training_started_at |-> NoTime]

\* what a reconciliation holds of the job it read, its now, and the
\* created_at of the provider's answer (NoTime when the answer has none)
IdleSeen == [status |-> "none", validation_started_at |-> NoTime,
             now |-> NoTime, created_at |-> NoTime]

TimingIdle ==
    timing = [clock |-> 0,
              stamps |-> [j \in JobIds |-> NoPhases],
              seen |-> [c \in Callers |-> IdleSeen]]

NoAutoTests == autoTests = [j \in JobIds |-> 0]

\* the timestamp fields of updateData; a field that is not set keeps the
\* value the record has
PhaseStamps(stored, seen, observed) ==
    [validation_started_at |->
         IF /\ seen.created_at # NoTime
            /\ seen.validation_started_at = NoTime
            /\ observed \in {"validating_files", "running", "succeeded"}
         THEN seen.created_at
         ELSE IF observed = "validating_files" /\ seen.status # "validating_files"
         THEN seen.now
         ELSE stored.validation_started_at,
     training_started_at |->
         IF observed = "running" /\ seen.status # "running"
         THEN seen.now
         ELSE stored.training_started_at]

\* the job is read and the provider asked; now is taken when the answer is in
FetchJobTimed(c, job_id, fetched, has_created_at) ==
    /\ timing.clock < MaxClock
    /\ FetchJob(c, job_id, fetched)
    /\ timing' =
           IF HasHandle(jobs[job_id]) /\ fetched
           THEN [timing EXCEPT
                    !.clock = @ + 1,
                    !.seen[c] =
                        [status |-> jobs[job_id].status,
                         validation_started_at |->
                             timing.stamps[job_id].validation_started_at,
                         now |-> Now(timing.clock + 1),
                         created_at |-> IF has_created_at THEN CreatedAt(job_id)
                                        ELSE NoTime]]
           ELSE timing

\* the job update with what was fetched, the timestamp fields included
WriteJobTimed(c) ==
    /\ WriteJob(c)
    /\ timing' = [timing EXCEPT
                     !.stamps[inflight[c].job_id] =
                         PhaseStamps(@, timing.seen[c], inflight[c].observed),
                     !.seen[c] = IdleSeen]

(* ------------------------------------------------------------------ *)
(* POST /api/fine-tune/jobs/[job_id]/cancel                           *)
(* ------------------------------------------------------------------ *)
\* what the cancel call to the provider comes back with
CancelAnswer(job_id, fetched) ==
    IF ~fetched THEN "threw"
    ELSE IF ProviderAcceptsCancel(job_id) THEN "200" ELSE "non200"

CancelProceedsUnchecked(answer) == answer # "threw"

CancelProceedsNever(answer) == FALSE

\* the handler goes on to write only after a 200
CancelProceeds(answer) == answer = "200"

CancelReplyCodeAlwaysOk(answer) == "OK"

CancelReplyCode(answer) ==
    CASE answer = "threw" -> "INTERNAL_ERROR"
      [] CancelProceeds(answer) -> "OK"
      [] OTHER -> "CANCEL_JOB_FAILED"

CancelJob(job_id, fetched) ==
    IF ~Exists(job_id)
    THEN /\ response' = Reply("cancel", job_id, "FINE_TUNE_JOB_NOT_FOUND", "none")
         /\ UNCHANGED <<jobs, bots, remote, terminalOrder>>
    ELSE IF ~HasHandle(jobs[job_id])
    THEN /\ response' = Reply("cancel", job_id, "OPENAI_JOB_ID_MISSING", "no_handle")
         /\ UNCHANGED <<jobs, bots, remote, terminalOrder>>
    ELSE LET job == jobs[job_id]
             answer == CancelAnswer(job_id, fetched)
         IN  /\ response' = Reply("cancel", job_id, CancelReplyCode(answer), answer)
             /\ remote' = IF answer = "200"
                          THEN [remote EXCEPT ![job_id] = "cancelled"]
                          ELSE remote
             /\ IF CancelProceeds(answer)
                THEN /\ jobs' = [jobs EXCEPT ![job_id].status = "cancelled"]
                     /\ bots' = [bots EXCEPT ![job.bot_id].status = "inactive"]
                     /\ terminalOrder' = NoteTerminal(job_id, job.status, "cancelled")
                ELSE UNCHANGED <<jobs, bots, terminalOrder>>

(* ------------------------------------------------------------------ *)
(* PATCH /api/bots/[bot_id]                                           *)
(* ------------------------------------------------------------------ *)
\* a status the body does not carry (or carries as an empty string)
Absent == ""

\* the status and model values a PATCH body carries; NoModel is no model
PatchStatuses == {Absent, "active", "inactive"}
PatchModels == {NoModel, BaseModel}

\* ...(model && { model }), ...(status && { status })
PatchedBot(bot, status, model) ==
    [bot EXCEPT !.status = IF status = Absent THEN @ ELSE status,
                !.model = IF model = NoModel THEN @ ELSE model]

UpdateBot(bot_id, status, model) ==
    IF bot_id \notin BotIds
    THEN \* prisma.bot.update throws on a missing record
         /\ response' = Reply("update_bot", NoJob, "INTERNAL_ERROR", "none")
         /\ UNCHANGED <<jobs, bots, remote, terminalOrder>>
    ELSE /\ bots' = [bots EXCEPT ![bot_id] = PatchedBot(@, status, model)]
         /\ response' = Reply("update_bot", NoJob, "OK", "none")
         /\ UNCHANGED <<jobs, remote, terminalOrder>>

(***************************************************************************)
(* Part II : dataset generation                                            *)
(***************************************************************************)
\* Message content is a string: a sequence of characters.
Alphabet == <<" ", "a", "b", "c", "d", "h", "q", "t", "w", "A", "Q">>

CharRank(c) == CHOOSE i \in 1..Len(Alphabet) : Alphabet[i] = c

\* String.prototype.toLowerCase
LowerChar(c) ==
    CASE c = "A" -> "a"
      [] c = "Q" -> "q"
      [] OTHER   -> c

ToLowerCase(str) == [i \in 1..Len(str) |-> LowerChar(str[i])]

RECURSIVE TrimStart(_)
TrimStart(str) ==
    IF str # <<>> /\ Head(str) = " " THEN TrimStart(Tail(str)) ELSE str

RECURSIVE TrimEnd(_)
TrimEnd(str) ==
    IF str # <<>> /\ str[Len(str)] = " "
    THEN TrimEnd(SubSeq(str, 1, Len(str) - 1))
    ELSE str

\* String.prototype.trim
Trim(str) == TrimEnd(TrimStart(str))

\* a.localeCompare(b) < 0
RECURSIVE LocaleLess(_, _)
LocaleLess(a, b) ==
    IF b = <<>> THEN FALSE
    ELSE IF a = <<>> THEN TRUE
    ELSE IF Head(a) # Head(b) THEN CharRank(Head(a)) < CharRank(Head(b))
    ELSE LocaleLess(Tail(a), Tail(b))

Msg(role, content) == [role |-> role, content |-> content]

\* role strings compared by localeCompare
RoleRank(role) ==
    CASE role = "assistant" -> 1
      [] role = "system"    -> 2
      [] OTHER              -> 3

\* the comparator of createExampleHash: by role first, then by content
MessageBefore(a, b) ==
    IF a.role # b.role THEN RoleRank(a.role) < RoleRank(b.role)
    ELSE LocaleLess(a.content, b.content)

RECURSIVE InsertSorted(_, _)
InsertSorted(m, sorted) ==
    IF sorted = <<>> THEN <<m>>
    ELSE IF MessageBefore(m, Head(sorted)) THEN <<m>> \o sorted
    ELSE <<Head(sorted)>> \o InsertSorted(m, Tail(sorted))

RECURSIVE SortMessages(_)
SortMessages(messages) ==
    IF messages = <<>> THEN <<>>
    ELSE InsertSorted(Head(messages), SortMessages(Tail(messages)))

\* a fingerprint of the normalized messages in the order they come in
createExampleHashUnsorted(messages) ==
    [i \in 1..Len(messages) |->
        Msg(messages[i].role, ToLowerCase(Trim(messages[i].content)))]

\* createExampleHash: the SHA-256 digest of the serialized normalized example.
\* The digest is taken as collision-free, so it is the normalized example.
createExampleHash(messages) ==
    SortMessages([i \in 1..Len(messages) |->
        Msg(messages[i].role, ToLowerCase(Trim(messages[i].content)))])

RECURSIVE SelectSeq2(_, _)
SelectSeq2(seq, keep) ==
    IF seq = <<>> THEN <<>>
    ELSE IF keep[1] THEN <<Head(seq)>> \o SelectSeq2(Tail(seq), Tail(keep))
    ELSE SelectSeq2(Tail(seq), Tail(keep))

\* Array.prototype.filter with the predicate given as a flag per element
Filter(seq, keep) == SelectSeq2(seq, keep)

HasRole(messages, role) == \E i \in 1..Len(messages) : messages[i].role = role

(* ------------------------------------------------------------------ *)
(* JSONL text: a string column is null or a sequence of lines; a line *)
(* is JSON text carrying an example, or text JSON.parse rejects.      *)
(* ------------------------------------------------------------------ *)
NullText == [null |-> TRUE, lines |-> <<>>]
Text(lines) == [null |-> FALSE, lines |-> lines]

JsonStringify(messages) == [json |-> TRUE, messages |-> messages]
GarbageLine == [json |-> FALSE, messages |-> <<>>]
CanParse(line) == line.json
JsonParse(line) == line.messages

\* the clean example convertToJSONL serializes: contents trimmed, empty ones dropped
CleanExample(messages) ==
    LET trimmed == [i \in 1..Len(messages) |->
                       Msg(messages[i].role, Trim(messages[i].content))]
    IN  Filter(trimmed, [i \in 1..Len(trimmed) |-> Len(trimmed[i].content) > 0])

ConvertKeeps(messages) ==
    LET clean == CleanExample(messages)
    IN  HasRole(clean, "user") /\ HasRole(clean, "assistant") /\ Len(clean) >= 2

\* convertToJSONL: one line per example that is still valid once cleaned
convertToJSONL(examples) ==
    LET kept == Filter(examples, [i \in 1..Len(examples) |-> ConvertKeeps(examples[i])])
    IN  [i \in 1..Len(kept) |-> JsonStringify(CleanExample(kept[i]))]

\* a check that lets an empty text through
validateJSONLOfLinesOnly(lines) ==
    \A i \in 1..Len(lines) : CanParse(lines[i])

\* validateJSONL: false on empty text, else every line must parse
validateJSONL(lines) ==
    /\ lines # <<>>
    /\ \A i \in 1..Len(lines) : CanParse(lines[i])

\* getAllExistingExampleHashes over one dataset's content
ExistingHashesOf(text) ==
    IF text.null \/ text.lines = <<>> THEN {}
    ELSE {createExampleHash([k \in 1..Len(JsonParse(text.lines[i])) |->
              Msg(IF JsonParse(text.lines[i])[k].role = "" THEN "user"
                  ELSE JsonParse(text.lines[i])[k].role,
                  Trim(JsonParse(text.lines[i])[k].content))]) :
          i \in {n \in 1..Len(text.lines) : CanParse(text.lines[n])}}

(* ------------------------------------------------------------------ *)
(* generateBatch and generateFallbackExamples                         *)
(* ------------------------------------------------------------------ *)
\* examples the provider's completion may carry, as parsed from its JSON
CoreExamples ==
    << <<Msg("user", <<"q">>), Msg("assistant", <<"a">>)>>,
       <<Msg("assistant", <<"A", " ">>), Msg("user", <<" ", "Q">>)>>,
       <<Msg("user", <<"q">>), Msg("assistant", <<"a">>), Msg("system", <<" ">>)>>,
       <<Msg("user", <<" ">>), Msg("assistant", <<"a">>)>>,
       <<Msg("user", <<"q">>), Msg("assistant", <<>>)>> >>

\* ten more examples, all well formed and with ten different fingerprints
LowerLetters == <<"a", "b", "c", "d", "h", "q", "t", "w">>
ScenarioExamples ==
    [k \in 1..10 |->
        <<Msg("user", <<LowerLetters[((k - 1) % Len(LowerLetters)) + 1]>>),
          Msg("assistant", <<IF k <= Len(LowerLetters) THEN "a" ELSE "b">>)>>]

ProviderExamples == CoreExamples \o ScenarioExamples

ProviderResponses ==
    UNION {[1..n -> 1..Len(CoreExamples)] : n \in 0..MaxResponseLen}

\* what a completion call ends with: a parsed list, or a timeout / non-200 /
\* unparsable body
ProviderAnswers ==
    {[ok |-> FALSE, examples |-> <<>>]}
        \cup {[ok |-> TRUE, examples |-> r] : r \in ProviderResponses}

\* the five question templates with the title filled in, and the one answer
FallbackQuestions == << <<"w">>, <<"t">>, <<"c">>, <<"h">>, <<"b">> >>
FallbackAnswer == <<"d">>

generateFallbackExamples(count) ==
    [i \in 1..count |->
        <<Msg("user", FallbackQuestions[((i - 1) % Len(FallbackQuestions)) + 1]),
          Msg("assistant", FallbackAnswer)>>]

\* the "Validate and normalize" loop: messages without content or with an
\* unknown role are dropped, then user + assistant + two messages are required
NormalizeRaw(raw) ==
    LET filled == [i \in 1..Len(raw) |->
                      Msg(IF raw[i].role = "" THEN "user" ELSE raw[i].role, raw[i].content)]
    IN  Filter(filled, [i \in 1..Len(filled) |->
                           /\ filled[i].content # <<>>
                           /\ filled[i].role \in {"user", "assistant", "system"}])

IsValidExample(messages) ==
    HasRole(messages, "user") /\ HasRole(messages, "assistant") /\ Len(messages) >= 2

\* a generateBatch whose catch block returns nothing
generateBatchWithoutFallback(count, answer) ==
    IF ~answer.ok THEN <<>>
    ELSE LET normalized == [i \in 1..Len(answer.examples) |->
                               NormalizeRaw(ProviderExamples[answer.examples[i]])]
         IN  Filter(normalized, [i \in 1..Len(normalized) |-> IsValidExample(normalized[i])])

generateBatch(count, answer) ==
    IF ~answer.ok THEN generateFallbackExamples(count)
    ELSE LET normalized == [i \in 1..Len(answer.examples) |->
                               NormalizeRaw(ProviderExamples[answer.examples[i]])]
         IN  Filter(normalized, [i \in 1..Len(normalized) |-> IsValidExample(normalized[i])])

(* ------------------------------------------------------------------ *)
(* POST /api/datasets/generate and processGenerationJob               *)
(* ------------------------------------------------------------------ *)
BatchSize == 5
MaxRetryAttempts == 3
MaxNumExamples == 100000
\* a count column that is still null
NullCount == -1

Min(a, b) == IF a < b THEN a ELSE b

NoDataset ==
    [ status                  |-> "none",
      content                 |-> NullText,
      training_content        |-> NullText,
      test_content            |-> NullText,
      num_examples            |-> NullCount,
      training_examples_count |-> NullCount,
      test_examples_count     |-> NullCount,
      progress                |-> 0,
      current_batch           |-> 0,
      total_batches           |-> 0,
      generated_count         |-> 0,
      error                   |-> FALSE,
      target_examples         |-> 0 ]

\* the runner's local variables; pc is where its control is
IdleRun ==
    [ pc             |-> "idle",
      batch          |-> 0,
      attempts       |-> 0,
      uniqueBatchExamples |-> <<>>,
      allExamples    |-> <<>>,
      currentJobHashes |-> {},
      existingHashes |-> {},
      indexLoaded    |-> FALSE ]

\* Math.ceil(numExamples / batchSize)
TotalBatches(numExamples) == (numExamples + BatchSize - 1) \div BatchSize

\* POST: validate, create the pending Dataset, start the runner in the background
CreateGenerationJob(has_fields, num_examples) ==
    /\ run.pc = "idle"
    /\ IF ~has_fields \/ num_examples < 1 \/ num_examples > MaxNumExamples
       THEN UNCHANGED <<ds, run>>
       ELSE /\ ds' = [NoDataset EXCEPT !.status = "pending",
                                       !.total_batches = TotalBatches(num_examples),
                                       !.target_examples = num_examples]
            /\ run' = [IdleRun EXCEPT !.pc = "start"]
    /\ UNCHANGED existing

\* the catch block of processGenerationJob: the failed write may itself fail,
\* and that failure is ignored
CatchBlock(dataset, catch_stored) ==
    IF catch_stored THEN [dataset EXCEPT !.status = "failed", !.error = TRUE]
    ELSE dataset

BatchCount(batch) == Min(BatchSize, ds.target_examples - (batch * BatchSize))

\* the for loop's condition and its break
LoopContinues(batch) == batch < ds.total_batches /\ BatchCount(batch) > 0

\* status -> processing, re-read, API key, global index
RunnerStart(outcome, index_loaded, catch_stored) ==
    /\ run.pc = "start"
    /\ CASE outcome = "update_failed" ->
              /\ ds' = CatchBlock(ds, catch_stored)
              /\ run' = [run EXCEPT !.pc = "returned"]
         [] outcome = "aborted" ->
              /\ ds' = CatchBlock([ds EXCEPT !.status = "processing"], catch_stored)
              /\ run' = [run EXCEPT !.pc = "returned"]
         [] OTHER ->
              /\ ds' = [ds EXCEPT !.status = "processing"]
              /\ run' = [run EXCEPT
                    !.pc = IF LoopContinues(0) THEN "generate" ELSE "finalize",
                    !.indexLoaded = index_loaded,
                    !.existingHashes =
                        IF index_loaded
                        THEN ExistingHashesOf(existing) \cup ExistingHashesOf(ds.content)
                                 \cup ExistingHashesOf(other.ds.content)
                        ELSE {}]
    /\ UNCHANGED existing

\* the dedup loop over one generateBatch result; the retry loop stops at the
\* batch count, the first pass takes every unique example
RECURSIVE Accept(_, _, _, _, _)
Accept(candidates, acc, existingHashes, capped, batchCount) ==
    IF candidates = <<>> THEN acc
    ELSE LET hash == createExampleHash(Head(candidates))
         IN  IF hash \in existingHashes \/ hash \in acc.hashes
             THEN Accept(Tail(candidates), acc, existingHashes, capped, batchCount)
             ELSE LET more == [unique |-> Append(acc.unique, Head(candidates)),
                               hashes |-> acc.hashes \cup {hash}]
                  IN  IF capped /\ Len(more.unique) >= batchCount THEN more
                      ELSE Accept(Tail(candidates), more, existingHashes, capped, batchCount)

\* a retry loop that goes round once more
RetryNeededOnceMore(unique, attempts, batchCount) ==
    Len(unique) < batchCount /\ attempts <= MaxRetryAttempts

\* while (uniqueBatchExamples.length < batchCount && attempts < maxRetryAttempts)
RetryNeeded(unique, attempts, batchCount) ==
    Len(unique) < batchCount /\ attempts < MaxRetryAttempts

\* a first call that reads the index again before it filters
RunnerGenerateRefreshing(answer) ==
    /\ run.pc = "generate"
    /\ LET batchCount == BatchCount(run.batch)
           fresh == IF run.indexLoaded
                    THEN ExistingHashesOf(existing) \cup ExistingHashesOf(other.ds.content)
                    ELSE {}
           got == Accept(generateBatch(batchCount, answer),
                         [unique |-> <<>>, hashes |-> run.currentJobHashes],
                         fresh, FALSE, batchCount)
       IN  run' = [run EXCEPT
               !.existingHashes = fresh,
               !.uniqueBatchExamples = got.unique,
               !.currentJobHashes = got.hashes,
               !.attempts = 0,
               !.pc = IF RetryNeeded(got.unique, 0, batchCount) THEN "retry" ELSE "persist"]
    /\ UNCHANGED <<ds, existing>>

\* the first generateBatch call of a batch
RunnerGenerate(answer) ==
    /\ run.pc = "generate"
    /\ LET batchCount == BatchCount(run.batch)
           got == Accept(generateBatch(batchCount, answer),
                         [unique |-> <<>>, hashes |-> run.currentJobHashes],
                         run.existingHashes, FALSE, batchCount)
       IN  run' = [run EXCEPT
               !.uniqueBatchExamples = got.unique,
               !.currentJobHashes = got.hashes,
               !.attempts = 0,
               !.pc = IF RetryNeeded(got.unique, 0, batchCount) THEN "retry" ELSE "persist"]
    /\ UNCHANGED <<ds, existing>>

\* a retry that asks for the whole batch again
NeededWholeBatch(batchCount, unique) == batchCount

\* const needed = batchCount - uniqueBatchExamples.length
Needed(batchCount, unique) == batchCount - Len(unique)

\* one pass of the retry loop: ask for the shortfall only
RunnerRetry(answer) ==
    /\ run.pc = "retry"
    /\ LET batchCount == BatchCount(run.batch)
           needed == Needed(batchCount, run.uniqueBatchExamples)
           got == Accept(generateBatch(needed, answer),
                         [unique |-> run.uniqueBatchExamples, hashes |-> run.currentJobHashes],
                         run.existingHashes, TRUE, batchCount)
       IN  run' = [run EXCEPT
               !.uniqueBatchExamples = got.unique,
               !.currentJobHashes = got.hashes,
               !.attempts = @ + 1,
               !.pc = IF RetryNeeded(got.unique, run.attempts + 1, batchCount)
                      THEN "retry" ELSE "persist"]
    /\ UNCHANGED <<ds, existing>>

(* ------------------------------------------------------------------ *)
(* The arithmetic of the progress computation                         *)
(* ------------------------------------------------------------------ *)
\* a Number is an IEEE 754 double: a significand of 53 bits (most significant
\* bit first) and a power of two; each operation rounds its exact result to
\* the nearest such value, to the even one on a tie
SignificandBits == 53

RECURSIVE BitsOf(_)
BitsOf(n) == IF n = 0 THEN <<>> ELSE Append(BitsOf(n \div 2), n % 2)

RECURSIVE IntOf(_)
IntOf(bits) ==
    IF bits = <<>> THEN 0
    ELSE 2 * IntOf(SubSeq(bits, 1, Len(bits) - 1)) + bits[Len(bits)]

RECURSIVE PlusOne(_)
PlusOne(bits) ==
    IF bits = <<>> THEN <<1>>
    ELSE IF bits[Len(bits)] = 0 THEN [bits EXCEPT ![Len(bits)] = 1]
    ELSE Append(PlusOne(SubSeq(bits, 1, Len(bits) - 1)), 0)

\* the bits of the quotient r / t after the binary point, n of them, and what
\* is left of r
RECURSIVE LongDivision(_, _, _, _)
LongDivision(r, t, n, quotient) ==
    IF n = 0 THEN [quotient |-> quotient, remainder |-> r]
    ELSE IF 2 * r >= t THEN LongDivision((2 * r) - t, t, n - 1, Append(quotient, 1))
    ELSE LongDivision(2 * r, t, n - 1, Append(quotient, 0))

\* the k with t <= b * 2^k < 2 * t
RECURSIVE ScaleOf(_, _)
ScaleOf(b, t) == IF b >= t THEN 0 ELSE 1 + ScaleOf(2 * b, t)

RECURSIVE TwoToThe(_)
TwoToThe(k) == IF k = 0 THEN 1 ELSE 2 * TwoToThe(k - 1)

\* b / t for 1 <= b <= t
DoubleDivide(b, t) ==
    LET k == ScaleOf(b, t)
        d == LongDivision((b * TwoToThe(k)) - t, t, SignificandBits - 1, <<1>>)
        up == \/ 2 * d.remainder > t
              \/ 2 * d.remainder = t /\ d.quotient[SignificandBits] = 1
    IN  [bits |-> IF up THEN PlusOne(d.quotient) ELSE d.quotient,
         exp |-> 0 - k - (SignificandBits - 1)]

\* the exact product of a significand and a small integer
RECURSIVE TimesBits(_, _, _)
TimesBits(bits, c, carry) ==
    IF bits = <<>> THEN BitsOf(carry)
    ELSE LET v == (bits[Len(bits)] * c) + carry
         IN  IF v % 2 = 0
             THEN Append(TimesBits(SubSeq(bits, 1, Len(bits) - 1), c, v \div 2), 0)
             ELSE Append(TimesBits(SubSeq(bits, 1, Len(bits) - 1), c, v \div 2), 1)

\* x * c for an integer c that is a double itself
DoubleTimes(x, c) ==
    LET product == TimesBits(x.bits, c, 0)
        drop == Len(product) - SignificandBits
        kept == SubSeq(product, 1, SignificandBits)
        rest == SubSeq(product, SignificandBits + 1, Len(product))
        up == /\ rest[1] = 1
              /\ \/ \E i \in 2..Len(rest) : rest[i] = 1
                 \/ kept[SignificandBits] = 1
    IN  IF drop <= 0 THEN [bits |-> product, exp |-> x.exp]
        ELSE [bits |-> IF up THEN PlusOne(kept) ELSE kept, exp |-> x.exp + drop]

\* Math.floor of a double below 2^31
MathFloor(x) ==
    IF Len(x.bits) + x.exp <= 0 THEN 0
    ELSE IF x.exp >= 0 THEN IntOf(x.bits) * TwoToThe(x.exp)
    ELSE IntOf(SubSeq(x.bits, 1, Len(x.bits) + x.exp))

\* Math.floor(((batch + 1) / total_batches) * 100)
Progress(batch) ==
    MathFloor(DoubleTimes(DoubleDivide(batch + 1, ds.total_batches), 100))

\* a persist step that keeps the last batch only
RunnerPersistOverwrites(stored) ==
    /\ run.pc = "persist"
    /\ ds' = IF stored
             THEN [ds EXCEPT !.current_batch = run.batch + 1,
                             !.progress = Progress(run.batch),
                             !.generated_count = Len(run.uniqueBatchExamples)]
             ELSE ds
    /\ run' = [run EXCEPT
           !.allExamples = run.uniqueBatchExamples,
           !.uniqueBatchExamples = <<>>,
           !.attempts = 0,
           !.batch = @ + 1,
           !.pc = IF LoopContinues(run.batch + 1) THEN "generate" ELSE "finalize"]
    /\ UNCHANGED existing

\* allExamples.push, the progress write (its failure skips to the next batch)
RunnerPersist(stored) ==
    /\ run.pc = "persist"
    /\ LET all == run.allExamples \o run.uniqueBatchExamples
       IN  /\ ds' = IF stored
                    THEN [ds EXCEPT !.current_batch = run.batch + 1,
                                    !.progress = Progress(run.batch),
                                    !.generated_count = Len(all)]
                    ELSE ds
           /\ run' = [run EXCEPT
                  !.allExamples = all,
                  !.uniqueBatchExamples = <<>>,
                  !.attempts = 0,
                  !.batch = @ + 1,
                  !.pc = IF LoopContinues(run.batch + 1) THEN "generate" ELSE "finalize"]
    /\ UNCHANGED existing

\* the filter before the split: every accumulated example has a messages
\* array and survives JSON.stringify / JSON.parse
validatedExamples(allExamples) == allExamples

TrainingCountRounded(n) == ((n * 8) + 5) \div 10

\* Math.floor(validatedExamples.length * 0.8)
TrainingCount(n) == (n * 8) \div 10

\* the record the commit writes
CompletedDataset(dataset, validated) ==
    LET trainingCount == TrainingCount(Len(validated))
        trainingExamples == SubSeq(validated, 1, trainingCount)
        testExamples == SubSeq(validated, trainingCount + 1, Len(validated))
    IN  [dataset EXCEPT
            !.content = Text(convertToJSONL(validated)),
            !.training_content = Text(convertToJSONL(trainingExamples)),
            !.test_content = Text(convertToJSONL(testExamples)),
            !.num_examples = Len(validated),
            !.training_examples_count = Len(trainingExamples),
            !.test_examples_count = Len(testExamples),
            !.status = "completed",
            !.progress = 100,
            !.generated_count = Len(validated)]

\* validation, 80/20 split, JSONL conversion and check, commit
RunnerFinalize(stored, catch_stored) ==
    /\ run.pc = "finalize"
    /\ LET validated == validatedExamples(run.allExamples)
       IN  ds' = IF /\ stored
                    /\ Len(validated) > 0
                    /\ validateJSONL(convertToJSONL(validated))
                 THEN CompletedDataset(ds, validated)
                 ELSE CatchBlock(ds, catch_stored)
    /\ run' = [run EXCEPT !.pc = "returned"]
    /\ UNCHANGED existing

(* ------------------------------------------------------------------ *)
(* PATCH /api/datasets/[dataset_id]                                   *)
(* ------------------------------------------------------------------ *)
\* the content a PATCH body carries: a line that is no JSON and a JSON line
\* without an assistant message
PatchContents ==
    { Text(<<GarbageLine, JsonStringify(<<Msg("user", <<"q">>)>>)>>) }

\* a PATCH that would also take the status from its body
PatchDatasetReopens(content) ==
    /\ ds.status # "none"
    /\ ds' = [ds EXCEPT !.content = content, !.status = "pending"]
    /\ UNCHANGED <<existing, run>>

\* PATCH: content is stored as given; status and counts are not in the update
PatchDataset(content) ==
    /\ ds.status # "none"
    /\ ds' = [ds EXCEPT !.content = content]
    /\ UNCHANGED <<existing, run>>

(***************************************************************************)
(* Part III: the accuracy evaluation                                       *)
(***************************************************************************)
\* str.split(/\s+/): the pieces between the runs of white space; a piece is
\* empty where the string starts or ends with white space, or is empty
RECURSIVE SplitFrom(_, _)
SplitFrom(str, piece) ==
    IF str = <<>> THEN <<piece>>
    ELSE IF Head(str) = " " THEN <<piece>> \o SplitFrom(TrimStart(Tail(str)), <<>>)
    ELSE SplitFrom(Tail(str), Append(piece, Head(str)))

SplitWords(str) == SplitFrom(str, <<>>)

WordSet(str) == LET words == SplitWords(ToLowerCase(str))
                IN  { words[i] : i \in 1..Len(words) }

\* a ratio of two counts, kept exact
Ratio(num, den) == [num |-> num, den |-> den]
Zero == Ratio(0, 1)

\* ratio >= 0.7
AtLeastThreshold(ratio) == 10 * ratio.num >= 7 * ratio.den

\* word overlap of two strings: |intersection| / |union| of their word sets
calculateSimilarity(str1, str2) ==
    LET set1 == WordSet(str1)
        set2 == WordSet(str2)
    IN  IF Cardinality(set1 \cup set2) > 0
        THEN Ratio(Cardinality(set1 \cap set2), Cardinality(set1 \cup set2))
        ELSE Zero

\* a test example of the request body; one without a messages array makes
\* example.messages.find throw
TestExample(messages) == [has_messages |-> TRUE, messages |-> messages]
NoMessages == [has_messages |-> FALSE, messages |-> <<>>]

\* messages.find(m => m.role === role): the first message of the role
RECURSIVE FindRole(_, _)
FindRole(messages, role) ==
    IF messages = <<>> THEN <<>>
    ELSE IF Head(messages).role = role THEN <<Head(messages)>>
    ELSE FindRole(Tail(messages), role)

\* the example has both a user and an assistant message
IsTestable(example) ==
    /\ FindRole(example.messages, "user") # <<>>
    /\ FindRole(example.messages, "assistant") # <<>>

\* what the completion call for one example ends with: a failure (a non-200
\* status or a thrown fetch) or the predicted text
CallFailed == [ok |-> FALSE, predicted |-> <<>>]
CallAnswered(predicted) == [ok |-> TRUE, predicted |-> predicted]

\* a result whose flag is set by any overlap at all
ResultOfLenient(example, outcome) ==
    LET input == FindRole(example.messages, "user")[1].content
        expected == FindRole(example.messages, "assistant")[1].content
        similarity == calculateSimilarity(expected, outcome.predicted)
    IN  IF outcome.ok
        THEN [input |-> input, expected |-> expected, predicted |-> outcome.predicted,
              correct |-> similarity.num > 0, similarity |-> similarity]
        ELSE [input |-> input, expected |-> expected, predicted |-> <<>>,
              correct |-> FALSE, similarity |-> Zero]

\* the result recorded for one testable example
ResultOf(example, outcome) ==
    LET input == FindRole(example.messages, "user")[1].content
        expected == FindRole(example.messages, "assistant")[1].content
        similarity == calculateSimilarity(expected, outcome.predicted)
    IN  IF outcome.ok
        THEN [input |-> input, expected |-> expected, predicted |-> outcome.predicted,
              correct |-> AtLeastThreshold(similarity), similarity |-> similarity]
        ELSE [input |-> input, expected |-> expected, predicted |-> <<>>,
              correct |-> FALSE, similarity |-> Zero]

\* a run that stops at the first failing completion call
RECURSIVE testModelStoppingAtFailure(_, _)
testModelStoppingAtFailure(testExamples, outcomes) ==
    IF testExamples = <<>> THEN [threw |-> FALSE, results |-> <<>>]
    ELSE IF ~Head(testExamples).has_messages THEN [threw |-> TRUE, results |-> <<>>]
    ELSE IF ~IsTestable(Head(testExamples))
         THEN testModelStoppingAtFailure(Tail(testExamples), Tail(outcomes))
    ELSE IF ~Head(outcomes).ok THEN [threw |-> FALSE, results |-> <<>>]
    ELSE LET rest == testModelStoppingAtFailure(Tail(testExamples), Tail(outcomes))
         IN  [threw |-> rest.threw,
              results |-> <<ResultOf(Head(testExamples), Head(outcomes))>> \o rest.results]

\* the loop over the test examples; outcomes[i] is what the completion call
\* for testExamples[i] ends with, if it is made
RECURSIVE testModelWithExamples(_, _)
testModelWithExamples(testExamples, outcomes) ==
    IF testExamples = <<>> THEN [threw |-> FALSE, results |-> <<>>]
    ELSE IF ~Head(testExamples).has_messages THEN [threw |-> TRUE, results |-> <<>>]
    ELSE IF ~IsTestable(Head(testExamples))
         THEN testModelWithExamples(Tail(testExamples), Tail(outcomes))
    ELSE LET rest == testModelWithExamples(Tail(testExamples), Tail(outcomes))
         IN  [threw |-> rest.threw,
              results |-> <<ResultOf(Head(testExamples), Head(outcomes))>> \o rest.results]

CorrectCount(testResults) ==
    Cardinality({ i \in 1..Len(testResults) : testResults[i].correct })

\* accuracy with a result counted from a similarity of one half
AccuracyFromHalf(testResults) ==
    IF testResults = <<>> THEN Zero
    ELSE Ratio(Cardinality({ i \in 1..Len(testResults) :
                                2 * testResults[i].similarity.num
                                    >= testResults[i].similarity.den }),
               Len(testResults))

\* calculateMetrics: the accuracy
Accuracy(testResults) ==
    IF testResults = <<>> THEN Zero ELSE Ratio(CorrectCount(testResults), Len(testResults))

\* calculateMetrics: tp, fp and fn
TruePositives(testResults) ==
    Cardinality({ i \in 1..Len(testResults) : AtLeastThreshold(testResults[i].similarity) })

FalsePositives(testResults) ==
    Cardinality({ i \in 1..Len(testResults) :
                    ~AtLeastThreshold(testResults[i].similarity) /\ testResults[i].correct })

FalseNegatives(testResults) ==
    Cardinality({ i \in 1..Len(testResults) :
                    AtLeastThreshold(testResults[i].similarity) /\ ~testResults[i].correct })

\* calculateMetrics: the precision
Precision(testResults) ==
    LET tp == TruePositives(testResults)
        fp == FalsePositives(testResults)
    IN  IF testResults # <<>> /\ tp + fp > 0 THEN Ratio(tp, tp + fp) ELSE Zero

\* calculateMetrics: the recall
Recall(testResults) ==
    LET tp == TruePositives(testResults)
        fn == FalseNegatives(testResults)
    IN  IF testResults # <<>> /\ tp + fn > 0 THEN Ratio(tp, tp + fn) ELSE Zero

\* the object {} that has no fields
EmptyObject == <<>>

\* calculateMetrics: the confusion matrix; without results it is {}
ConfusionMatrix(testResults) ==
    IF testResults = <<>> THEN EmptyObject
    ELSE LET tp == TruePositives(testResults)
             fp == FalsePositives(testResults)
             fn == FalseNegatives(testResults)
         IN  [true_positives  |-> tp,
              false_positives |-> fp,
              false_negatives |-> fn,
              true_negatives  |-> Len(testResults) - tp - fp - fn]

NoError == [message |-> "none"]
NoReport == [status |-> "none", test_examples |-> 0, accuracy |-> Zero,
             precision |-> Zero, recall |-> Zero, confusion_matrix |-> EmptyObject,
             test_results |-> <<>>, error |-> NoError]
IdleEval == [pc |-> "idle", test_examples |-> <<>>, outcomes |-> <<>>]
\* a reply: the handler, the code returned, and whether the request lacked a
\* required field or carried a value out of range
ReplyOf(op, code, invalid) == [op |-> op, code |-> code, invalid |-> invalid]
NoReply == ReplyOf("none", "none", FALSE)

EvalIdle ==
    /\ report = NoReport
    /\ eval = IdleEval
    /\ reply = NoReply

\* the handler up to the creation of the report
CreateReport(has_model_id, test_examples, created) ==
    /\ eval.pc # "running"
    /\ IF ~has_model_id \/ test_examples = <<>>
       THEN /\ reply' = ReplyOf("evaluate", "MISSING_REQUIRED_FIELDS", TRUE)
            /\ UNCHANGED <<report, eval>>
       ELSE IF ~created
       THEN /\ reply' = ReplyOf("evaluate", "INTERNAL_ERROR", FALSE)
            /\ UNCHANGED <<report, eval>>
       ELSE /\ report' = [NoReport EXCEPT !.status = "testing",
                                          !.test_examples = Len(test_examples)]
            /\ eval' = [pc |-> "running", test_examples |-> test_examples,
                        outcomes |-> <<>>]
            /\ reply' = NoReply

\* the handler from the creation of the report to its return
RunEvaluation(outcomes, marked, stored, catch_stored) ==
    /\ eval.pc = "running"
    /\ LET tested == testModelWithExamples(eval.test_examples, outcomes)
       IN  IF marked /\ ~tested.threw /\ stored
           THEN /\ report' = [report EXCEPT !.status = "completed",
                                            !.accuracy = Accuracy(tested.results),
                                            !.precision = Precision(tested.results),
                                            !.recall = Recall(tested.results),
                                            !.confusion_matrix =
                                                ConfusionMatrix(tested.results),
                                            !.test_results = tested.results]
                /\ reply' = ReplyOf("evaluate", "OK", FALSE)
           ELSE IF catch_stored
           THEN /\ report' = [report EXCEPT !.status = "failed",
                                            !.error = [message |-> "testError"]]
                /\ reply' = ReplyOf("evaluate", "TESTING_FAILED", FALSE)
           ELSE /\ reply' = ReplyOf("evaluate", "INTERNAL_ERROR", FALSE)
                /\ UNCHANGED report
    /\ eval' = [eval EXCEPT !.pc = "returned",
                            !.outcomes = SubSeq(outcomes, 1, Len(eval.test_examples))]

(* ------------------------------------------------------------------ *)
(* Specifications                                                     *)
(* ------------------------------------------------------------------ *)
\* what the earlier completed dataset holds: nothing, or a bad line and one
\* example
ExistingContents ==
    { NullText,
      Text(<<GarbageLine, JsonStringify(ProviderExamples[1])>>) }

GenInit ==
    /\ existing \in ExistingContents
    /\ ds = NoDataset
    /\ run = IdleRun
    /\ calls = <<>>
    /\ other = [ds |-> NoDataset, run |-> IdleRun]

GenIdle ==
    /\ existing = NullText
    /\ ds = NoDataset
    /\ run = IdleRun
    /\ calls = <<>>
    /\ other = [ds |-> NoDataset, run |-> IdleRun]

StartOutcomes == {"ok", "update_failed", "aborted"}

GenNext ==
    \/ \E has_fields \in BOOLEAN, num_examples \in 0..MaxTarget :
          CreateGenerationJob(has_fields, num_examples) /\ UNCHANGED <<ftVars, calls, other, evalVars, inflight, sideVars>>
    \/ \E outcome \in StartOutcomes, index_loaded \in BOOLEAN, catch_stored \in BOOLEAN :
          RunnerStart(outcome, index_loaded, catch_stored) /\ UNCHANGED <<ftVars, calls, other, evalVars, inflight, sideVars>>
    \/ \E answer \in ProviderAnswers : RunnerGenerate(answer) /\ UNCHANGED <<ftVars, calls, other, evalVars, inflight, sideVars>>
    \/ \E answer \in ProviderAnswers : RunnerRetry(answer) /\ UNCHANGED <<ftVars, calls, other, evalVars, inflight, sideVars>>
    \/ \E stored \in BOOLEAN : RunnerPersist(stored) /\ UNCHANGED <<ftVars, calls, other, evalVars, inflight, sideVars>>
    \/ \E stored \in BOOLEAN, catch_stored \in BOOLEAN :
          RunnerFinalize(stored, catch_stored) /\ UNCHANGED <<ftVars, calls, other, evalVars, inflight, sideVars>>

Patch == \E content \in PatchContents : PatchDataset(content) /\ UNCHANGED <<ftVars, calls, other, evalVars, inflight, sideVars>>

(* ------------------------------------------------------------------ *)
(* Specification of the fine-tune job lifecycle                       *)
(* ------------------------------------------------------------------ *)
\* a Bot as POST /api/bots creates it by default
NewBot == [status |-> "inactive", model |-> BaseModel, fine_tuned_model_id |-> NoModel]

FtInit ==
    /\ jobs = <<>>
    /\ bots = [b \in BotIds |-> NewBot]
    /\ remote = [j \in JobIds |-> "none"]
    /\ terminalOrder = <<>>
    /\ response = Reply("none", NoJob, "OK", "none")

FtNext ==
    \/ /\ Len(jobs) < MaxJobs
       /\ \E shape \in RequestShapes, bot_id \in BotIds \cup {UnknownBot},
             parent_job_id \in JobIds \cup {NoJob}, outcome \in SubmitOutcomes,
             remote_status \in RemoteInitialStatuses :
               CreateJob(shape, bot_id, parent_job_id, outcome, remote_status)
                   /\ UNCHANGED <<genVars, calls, evalVars, inflight, sideVars>>
    \/ \E job_id \in JobIds, fetched \in BOOLEAN :
          GetJob(job_id, fetched) /\ UNCHANGED <<genVars, calls, evalVars, inflight, sideVars>>
    \/ \E job_id \in JobIds, fetched \in BOOLEAN :
          CancelJob(job_id, fetched) /\ UNCHANGED <<genVars, calls, evalVars, inflight, sideVars>>
    \/ \E j \in JobIds : ProviderAdvance(j) /\ UNCHANGED <<genVars, calls, evalVars, inflight, sideVars>>

\* the fine-tune job lifecycle
Init == FtInit /\ GenIdle /\ EvalIdle /\ NoneInFlight /\ TimingIdle /\ NoAutoTests
Next == FtNext
Spec == Init /\ [][Next]_vars

\* the fine-tune job lifecycle with PATCH /api/bots/[bot_id]
BotUpdate ==
    \E bot_id \in BotIds \cup {UnknownBot}, status \in PatchStatuses, model \in PatchModels :
        UpdateBot(bot_id, status, model) /\ UNCHANGED <<genVars, calls, evalVars, inflight, sideVars>>

NextBotUpdate == FtNext \/ BotUpdate
SpecBotUpdate == Init /\ [][NextBotUpdate]_vars

\* one generation job, run by processGenerationJob
InitGen == FtInit /\ GenInit /\ EvalIdle /\ NoneInFlight /\ TimingIdle /\ NoAutoTests
NextGen == GenNext
SpecGen == InitGen /\ [][NextGen]_vars

\* the same with PATCH /api/datasets/[dataset_id] on the job's Dataset
NextGenPatch == GenNext \/ Patch
SpecGenPatch == InitGen /\ [][NextGenPatch]_vars

(* ------------------------------------------------------------------ *)
(* A run over a provider that emits a fixed stream of examples        *)
(* ------------------------------------------------------------------ *)
\* the stream, as indexes into ScenarioExamples: the first two examples come
\* again after the eighth
ScenarioStream == <<1, 2, 3, 4, 5, 6, 7, 8, 1, 2, 9, 10>>

\* where in the stream a completion may begin
ScenarioStarts == {1, 6, 11}

\* the completion that carries count examples of the stream from start on
StreamAnswer(start, count) ==
    LET last == Min(start + count - 1, Len(ScenarioStream))
    IN  [ok |-> TRUE,
         examples |-> [i \in 1..(last - start + 1) |->
                          Len(CoreExamples) + ScenarioStream[start + i - 1]]]

\* one generateBatch call: the batch, what it returned, what was accepted
Call(batch, returned, accepted) ==
    [batch |-> batch, returned |-> returned, accepted |-> accepted]

ScenarioGenerate(start) ==
    LET count == BatchCount(run.batch)
    IN  /\ RunnerGenerate(StreamAnswer(start, count))
        /\ calls' = Append(calls, Call(run.batch,
                                       Len(generateBatch(count, StreamAnswer(start, count))),
                                       Len(run'.uniqueBatchExamples)))

ScenarioRetry(start) ==
    LET needed == BatchCount(run.batch) - Len(run.uniqueBatchExamples)
    IN  /\ RunnerRetry(StreamAnswer(start, needed))
        /\ calls' = Append(calls, Call(run.batch,
                                       Len(generateBatch(needed, StreamAnswer(start, needed))),
                                       Len(run'.uniqueBatchExamples)
                                           - Len(run.uniqueBatchExamples)))

NextScenario ==
    \/ \E has_fields \in BOOLEAN, num_examples \in {BatchSize + 1, 2 * BatchSize} :
          CreateGenerationJob(has_fields, num_examples) /\ UNCHANGED <<ftVars, calls, other, evalVars, inflight, sideVars>>
    \/ \E outcome \in StartOutcomes, index_loaded \in BOOLEAN, catch_stored \in BOOLEAN :
          RunnerStart(outcome, index_loaded, catch_stored) /\ UNCHANGED <<ftVars, calls, other, evalVars, inflight, sideVars>>
    \/ \E start \in ScenarioStarts : ScenarioGenerate(start) /\ UNCHANGED <<ftVars, other, evalVars, inflight, sideVars>>
    \/ \E start \in ScenarioStarts : ScenarioRetry(start) /\ UNCHANGED <<ftVars, other, evalVars, inflight, sideVars>>
    \/ \E stored \in BOOLEAN : RunnerPersist(stored) /\ UNCHANGED <<ftVars, calls, other, evalVars, inflight, sideVars>>
    \/ \E stored \in BOOLEAN, catch_stored \in BOOLEAN :
          RunnerFinalize(stored, catch_stored) /\ UNCHANGED <<ftVars, calls, other, evalVars, inflight, sideVars>>

SpecScenario == Init /\ [][NextScenario]_vars

(* ------------------------------------------------------------------ *)
(* A run with the generateBatch calls it makes written down           *)
(* ------------------------------------------------------------------ *)
\* one generateBatch call of the runner: the batch it is for, the count it
\* asks for, and the unique examples the batch holds when it is made
Request(batch, count, held) == [batch |-> batch, count |-> count, held |-> held]

GenerateCall(answer) ==
    /\ RunnerGenerate(answer)
    /\ calls' = Append(calls, Request(run.batch, BatchCount(run.batch), 0))

RetryCall(answer) ==
    /\ RunnerRetry(answer)
    /\ calls' = Append(calls,
                       Request(run.batch,
                               Needed(BatchCount(run.batch), run.uniqueBatchExamples),
                               Len(run.uniqueBatchExamples)))

\* what the completion calls end with: a failure, no example, one example,
\* the example with the same fingerprint, or two examples
CallAnswers ==
    { [ok |-> FALSE, examples |-> <<>>],
      [ok |-> TRUE, examples |-> <<>>],
      [ok |-> TRUE, examples |-> <<1>>],
      [ok |-> TRUE, examples |-> <<2>>],
      [ok |-> TRUE, examples |-> <<1, 3>>] }

NextCalls ==
    \/ \E has_fields \in BOOLEAN, num_examples \in 0..MaxTarget :
          CreateGenerationJob(has_fields, num_examples)
              /\ UNCHANGED <<ftVars, calls, other, evalVars, inflight, sideVars>>
    \/ \E outcome \in StartOutcomes, index_loaded \in BOOLEAN, catch_stored \in BOOLEAN :
          RunnerStart(outcome, index_loaded, catch_stored)
              /\ UNCHANGED <<ftVars, calls, other, evalVars, inflight, sideVars>>
    \/ \E answer \in CallAnswers :
          GenerateCall(answer) /\ UNCHANGED <<ftVars, other, evalVars, inflight, sideVars>>
    \/ \E answer \in CallAnswers :
          RetryCall(answer) /\ UNCHANGED <<ftVars, other, evalVars, inflight, sideVars>>
    \/ \E stored \in BOOLEAN :
          RunnerPersist(stored)
              /\ UNCHANGED <<ftVars, calls, other, evalVars, inflight, sideVars>>
    \/ \E stored \in BOOLEAN, catch_stored \in BOOLEAN :
          RunnerFinalize(stored, catch_stored)
              /\ UNCHANGED <<ftVars, calls, other, evalVars, inflight, sideVars>>

SpecCalls == InitGen /\ [][NextCalls]_vars

(* ------------------------------------------------------------------ *)
(* A run that is given the processor until it returns, with a record  *)
(* store that takes the final write                                   *)
(* ------------------------------------------------------------------ *)
\* every await of the runner comes back: a completion call ends with an
\* answer, a failure or its timeout, a write is stored or refused
CallEnds(failed, examples) ==
    [ok |-> ~failed, examples |-> IF failed THEN <<>> ELSE examples]

CallExamples == {answer.examples : answer \in CallAnswers}

RunnerStep ==
    \/ \E outcome \in StartOutcomes, index_loaded \in BOOLEAN :
          RunnerStart(outcome, index_loaded, TRUE)
              /\ UNCHANGED <<ftVars, calls, other, evalVars, inflight, sideVars>>
    \/ \E failed \in BOOLEAN, examples \in CallExamples :
          GenerateCall(CallEnds(failed, examples))
              /\ UNCHANGED <<ftVars, other, evalVars, inflight, sideVars>>
    \/ \E failed \in BOOLEAN, examples \in CallExamples :
          RetryCall(CallEnds(failed, examples))
              /\ UNCHANGED <<ftVars, other, evalVars, inflight, sideVars>>
    \/ \E stored \in BOOLEAN :
          RunnerPersist(stored)
              /\ UNCHANGED <<ftVars, calls, other, evalVars, inflight, sideVars>>
    \/ \E stored \in BOOLEAN :
          RunnerFinalize(stored, TRUE)
              /\ UNCHANGED <<ftVars, calls, other, evalVars, inflight, sideVars>>

NextLive ==
    \/ \E has_fields \in BOOLEAN, num_examples \in 0..MaxTarget :
          CreateGenerationJob(has_fields, num_examples)
              /\ UNCHANGED <<ftVars, calls, other, evalVars, inflight, sideVars>>
    \/ RunnerStep

SpecLive == InitGen /\ [][NextLive]_vars /\ WF_vars(RunnerStep)

(* ------------------------------------------------------------------ *)
(* A run that nothing but its data can fail: the first update and the *)
(* commit are stored; a progress write may still throw                *)
(* ------------------------------------------------------------------ *)
NextData ==
    \/ \E has_fields \in BOOLEAN, num_examples \in 0..MaxTarget :
          CreateGenerationJob(has_fields, num_examples)
              /\ UNCHANGED <<ftVars, calls, other, evalVars, inflight, sideVars>>
    \/ \E index_loaded \in BOOLEAN :
          RunnerStart("ok", index_loaded, TRUE)
              /\ UNCHANGED <<ftVars, calls, other, evalVars, inflight, sideVars>>
    \/ \E answer \in ProviderAnswers :
          RunnerGenerate(answer)
              /\ UNCHANGED <<ftVars, calls, other, evalVars, inflight, sideVars>>
    \/ \E answer \in ProviderAnswers :
          RunnerRetry(answer)
              /\ UNCHANGED <<ftVars, calls, other, evalVars, inflight, sideVars>>
    \/ \E stored \in BOOLEAN :
          RunnerPersist(stored)
              /\ UNCHANGED <<ftVars, calls, other, evalVars, inflight, sideVars>>
    \/ RunnerFinalize(TRUE, TRUE)
          /\ UNCHANGED <<ftVars, calls, other, evalVars, inflight, sideVars>>

SpecData == InitGen /\ [][NextData]_vars

(* ------------------------------------------------------------------ *)
(* A long run: fifty batches over a provider that is down, so that    *)
(* every call ends in the fallback; every write is stored             *)
(* ------------------------------------------------------------------ *)
ProviderDown == [ok |-> FALSE, examples |-> <<>>]

NextLongRun ==
    \/ \E num_examples \in {MaxLongRun - 4, MaxLongRun} :
          CreateGenerationJob(TRUE, num_examples)
              /\ UNCHANGED <<ftVars, calls, other, evalVars, inflight, sideVars>>
    \/ \E index_loaded \in BOOLEAN :
          RunnerStart("ok", index_loaded, TRUE)
              /\ UNCHANGED <<ftVars, calls, other, evalVars, inflight, sideVars>>
    \/ RunnerGenerate(ProviderDown)
          /\ UNCHANGED <<ftVars, calls, other, evalVars, inflight, sideVars>>
    \/ RunnerRetry(ProviderDown)
          /\ UNCHANGED <<ftVars, calls, other, evalVars, inflight, sideVars>>
    \/ RunnerPersist(TRUE)
          /\ UNCHANGED <<ftVars, calls, other, evalVars, inflight, sideVars>>
    \/ RunnerFinalize(TRUE, TRUE)
          /\ UNCHANGED <<ftVars, calls, other, evalVars, inflight, sideVars>>

SpecLongRun == InitGen /\ [][NextLongRun]_vars

(* ------------------------------------------------------------------ *)
(* Two generation jobs whose runners interleave at their awaits       *)
(* ------------------------------------------------------------------ *)
\* the runner that has the processor yields to the other one
SwitchJob ==
    /\ ds' = other.ds
    /\ run' = other.run
    /\ other' = [ds |-> ds, run |-> run]
    /\ UNCHANGED <<existing, ftVars, calls, evalVars, inflight, sideVars>>

\* what the completion calls of the two jobs end with: a failure, the first
\* example, or the second, which has the fingerprint of the first
TwoJobAnswers ==
    { [ok |-> FALSE, examples |-> <<>>],
      [ok |-> TRUE, examples |-> <<1>>],
      [ok |-> TRUE, examples |-> <<2>>] }

NextTwoJobs ==
    \/ \E has_fields \in BOOLEAN, num_examples \in {0, 1} :
          CreateGenerationJob(has_fields, num_examples) /\ UNCHANGED <<ftVars, calls, other, evalVars, inflight, sideVars>>
    \/ \E outcome \in StartOutcomes, index_loaded \in BOOLEAN, catch_stored \in BOOLEAN :
          RunnerStart(outcome, index_loaded, catch_stored) /\ UNCHANGED <<ftVars, calls, other, evalVars, inflight, sideVars>>
    \/ \E answer \in TwoJobAnswers : RunnerGenerate(answer) /\ UNCHANGED <<ftVars, calls, other, evalVars, inflight, sideVars>>
    \/ \E answer \in TwoJobAnswers : RunnerRetry(answer) /\ UNCHANGED <<ftVars, calls, other, evalVars, inflight, sideVars>>
    \/ \E stored \in BOOLEAN : RunnerPersist(stored) /\ UNCHANGED <<ftVars, calls, other, evalVars, inflight, sideVars>>
    \/ \E stored \in BOOLEAN, catch_stored \in BOOLEAN :
          RunnerFinalize(stored, catch_stored) /\ UNCHANGED <<ftVars, calls, other, evalVars, inflight, sideVars>>
    \/ SwitchJob

SpecTwoJobs == Init /\ [][NextTwoJobs]_vars

(* ------------------------------------------------------------------ *)
(* generateBatch on its own                                           *)
(* ------------------------------------------------------------------ *)
\* one call of generateBatch: the count asked for, what the completion call
\* ended with, and the examples returned to the caller
CallGenerateBatch(count, answer) ==
    /\ calls' = <<[count |-> count, answer |-> answer,
                   result |-> generateBatch(count, answer)]>>
    /\ UNCHANGED <<ftVars, genVars, evalVars, inflight, sideVars>>

NextBatch ==
    \E count \in 1..BatchSize, answer \in ProviderAnswers : CallGenerateBatch(count, answer)

SpecBatch == Init /\ [][NextBatch]_vars

(* ------------------------------------------------------------------ *)
(* Specification of the accuracy evaluation                           *)
(* ------------------------------------------------------------------ *)
\* test examples of a request: an expected answer of two words with the
\* assistant message first and two user messages, a question without an
\* answer, and an element without a messages array
TestExamplePool ==
    { TestExample(<<Msg("assistant", <<"A", " ", "b">>), Msg("user", <<"q">>),
                    Msg("user", <<"a">>)>>),
      TestExample(<<Msg("user", <<"q">>)>>),
      NoMessages }

TestRequests == UNION { [1..n -> TestExamplePool] : n \in 0..MaxTests }

\* what the model under test answers: the expected words in another case,
\* order and spacing, one of them, one word more, or nothing
Predictions ==
    { <<"b", " ", " ", "a">>, <<"a">>, <<"a", " ", "b", " ", "c">>, <<>> }

CallOutcomes == {CallFailed} \cup { CallAnswered(p) : p \in Predictions }

EvalNext ==
    \/ \E has_model_id \in BOOLEAN, test_examples \in TestRequests, created \in BOOLEAN :
          CreateReport(has_model_id, test_examples, created)
              /\ UNCHANGED <<ftVars, genVars, calls, inflight, sideVars>>
    \/ /\ eval.pc = "running"
       /\ \E outcomes \in [1..MaxTests -> CallOutcomes],
             marked \in BOOLEAN, stored \in BOOLEAN, catch_stored \in BOOLEAN :
             RunEvaluation(outcomes, marked, stored, catch_stored)
                 /\ UNCHANGED <<ftVars, genVars, calls, inflight, sideVars>>

SpecEval == Init /\ [][EvalNext]_vars

(* ------------------------------------------------------------------ *)
(* An evaluation of ten test examples                                 *)
(* ------------------------------------------------------------------ *)
\* a request of ten examples with the expected answer "a b"
ScenarioRequest ==
    [i \in 1..10 |-> TestExample(<<Msg("user", <<"q">>),
                                   Msg("assistant", <<"a", " ", "b">>)>>)]

\* per example the model answers the expected words (similarity 1) or one of
\* them (similarity 1/2)
ScenarioOutcomes ==
    { CallAnswered(<<"b", " ", "A">>), CallAnswered(<<"b">>) }

NextEvalScenario ==
    \/ \E has_model_id \in BOOLEAN, created \in BOOLEAN :
          CreateReport(has_model_id, ScenarioRequest, created)
              /\ UNCHANGED <<ftVars, genVars, calls, inflight, sideVars>>
    \/ /\ eval.pc = "running"
       /\ \E outcomes \in [1..Len(ScenarioRequest) -> ScenarioOutcomes],
             marked \in BOOLEAN, stored \in BOOLEAN, catch_stored \in BOOLEAN :
             RunEvaluation(outcomes, marked, stored, catch_stored)
                 /\ UNCHANGED <<ftVars, genVars, calls, inflight, sideVars>>

SpecEvalScenario == Init /\ [][NextEvalScenario]_vars

(* ------------------------------------------------------------------ *)
(* The three creating requests and their validation                   *)
(* ------------------------------------------------------------------ *)
Digits == <<"0", "1", "2", "3", "4", "5", "6", "7", "8", "9">>

IsDigit(c) == \E d \in 1..Len(Digits) : Digits[d] = c

DigitValue(c) == (CHOOSE d \in 1..Len(Digits) : Digits[d] = c) - 1

\* the value of the longest prefix of digits
RECURSIVE DigitsPrefix(_, _)
DigitsPrefix(str, value) ==
    IF str = <<>> \/ ~IsDigit(Head(str)) THEN value
    ELSE DigitsPrefix(Tail(str), 10 * value + DigitValue(Head(str)))

\* parseInt(str, 10): an optional sign and the digits up to the first other
\* character; NaN when there is no digit
ParseInt(str) ==
    LET signed == str # <<>> /\ Head(str) \in {"+", "-"}
        body == IF signed THEN Tail(str) ELSE str
    IN  IF body = <<>> \/ ~IsDigit(Head(body)) THEN [nan |-> TRUE, value |-> 0]
        ELSE [nan |-> FALSE,
              value |-> IF signed /\ Head(str) = "-" THEN 0 - DigitsPrefix(body, 0)
                        ELSE DigitsPrefix(body, 0)]

\* num_examples of a request body: String(num_examples), and whether the
\* value lies in 1..100000.  0, 1, 3, 100000, 100001, 100000.5, 1e21 (whose
\* String is "1e+21"), -1 and "abc"
NumExamplesOf(text, in_range) == [text |-> text, in_range |-> in_range]

NumExamplesInputs ==
    { NumExamplesOf(<<"0">>, FALSE),
      NumExamplesOf(<<"1">>, TRUE),
      NumExamplesOf(<<"3">>, TRUE),
      NumExamplesOf(<<"1", "0", "0", "0", "0", "0">>, TRUE),
      NumExamplesOf(<<"1", "0", "0", "0", "0", "1">>, FALSE),
      NumExamplesOf(<<"1", "0", "0", "0", "0", "0", ".", "5">>, FALSE),
      NumExamplesOf(<<"1", "e", "+", "2", "1">>, FALSE),
      NumExamplesOf(<<"-", "1">>, FALSE),
      NumExamplesOf(<<"a", "b", "c">>, FALSE) }

\* numExamples as the handler's checks see it; NaN takes the branch of a
\* value below 1
NumExamples(text) == IF ParseInt(text).nan THEN 0 ELSE ParseInt(text).value

GenerateReplyCode(has_fields, numExamples) ==
    IF ~has_fields THEN "MISSING_REQUIRED_FIELDS"
    ELSE IF numExamples < 1 \/ numExamples > MaxNumExamples THEN "INVALID_NUM_EXAMPLES"
    ELSE "OK"

\* POST /api/datasets/generate with its reply
GenerateRequest(has_fields, num_examples) ==
    /\ CreateGenerationJob(has_fields, NumExamples(num_examples.text))
    /\ reply' = ReplyOf("generate",
                        GenerateReplyCode(has_fields, NumExamples(num_examples.text)),
                        ~has_fields \/ ~num_examples.in_range)

\* the evaluation requests: no example, or one
RequestSamples ==
    { r \in TestRequests : Len(r) <= 1 /\ \A i \in 1..Len(r) : r[i] # NoMessages }

NextRequests ==
    \/ \E shape \in RequestShapes, bot_id \in BotIds \cup {UnknownBot},
          remote_status \in RemoteInitialStatuses :
            CreateJob(shape, bot_id, NoJob, "ok", remote_status)
                /\ UNCHANGED <<genVars, calls, evalVars, inflight, sideVars>>
    \/ \E has_fields \in BOOLEAN, num_examples \in NumExamplesInputs :
          GenerateRequest(has_fields, num_examples)
              /\ UNCHANGED <<ftVars, calls, other, report, eval, inflight, sideVars>>
    \/ SwitchJob
    \/ \E has_model_id \in BOOLEAN, test_examples \in RequestSamples, created \in BOOLEAN :
          CreateReport(has_model_id, test_examples, created)
              /\ UNCHANGED <<ftVars, genVars, calls, inflight, sideVars>>
    \/ \E marked \in BOOLEAN, stored \in BOOLEAN, catch_stored \in BOOLEAN :
          RunEvaluation(<<CallFailed>>, marked, stored, catch_stored)
              /\ UNCHANGED <<ftVars, genVars, calls, inflight, sideVars>>

SpecRequests == Init /\ [][NextRequests]_vars

(* ------------------------------------------------------------------ *)
(* Event publishing and admin notification                            *)
(* ------------------------------------------------------------------ *)
\* a publish whose failure would leave the try block it is written in
DeliveryUncaught(published) == IF published THEN "sent" ELSE "thrown"

\* try { emit... / await notify... } catch { logger.warning }: a failed
\* publish is logged and the handler goes on
Delivery(published) == IF published THEN "sent" ELSE "caught"

\* the handler of the last call, when its publish failed
Published(op, published) == IF published THEN <<>> ELSE <<[op |-> op]>>

\* POST /api/fine-tune/jobs: job created event after the create, started
\* notification after the submission
SubmitPublishing(shape, bot_id, outcome, remote_status, published) ==
    IF Delivery(published) = "thrown" /\ shape = "ok" /\ bot_id \in BotIds
    THEN \* the handler's outer catch: the job stays as created
         /\ Len(jobs) < MaxJobs
         /\ jobs' = Append(jobs, NewJob(bot_id, NoJob))
         /\ response' = Reply("create", Len(jobs) + 1, "INTERNAL_ERROR", "threw")
         /\ UNCHANGED <<bots, remote, terminalOrder>>
    ELSE CreateJob(shape, bot_id, NoJob, outcome, remote_status)

\* GET /api/fine-tune/jobs/[job_id]: updated and progress events and the
\* progress notification, between the job update and the Bot update
GetJobPublishing(job_id, fetched, published) ==
    IF Delivery(published) = "thrown" /\ Exists(job_id) /\ HasHandle(jobs[job_id]) /\ fetched
    THEN \* the catch around the provider call: the stored job is returned
         /\ jobs' = [jobs EXCEPT ![job_id] =
                        ReconciledJob(@, remote[job_id], RemoteModel(job_id))]
         /\ terminalOrder' = NoteTerminal(job_id, jobs[job_id].status, remote[job_id])
         /\ response' = Reply("get", job_id, "OK", "unavailable")
         /\ UNCHANGED <<bots, remote>>
    ELSE GetJob(job_id, fetched)

\* POST /api/fine-tune/jobs/[job_id]/cancel: updated event between the job
\* update and the Bot update
CancelJobPublishing(job_id, fetched, published) ==
    IF /\ Delivery(published) = "thrown" /\ Exists(job_id) /\ HasHandle(jobs[job_id])
       /\ CancelProceeds(CancelAnswer(job_id, fetched))
    THEN \* the catch around the provider call
         /\ jobs' = [jobs EXCEPT ![job_id].status = "cancelled"]
         /\ remote' = [remote EXCEPT ![job_id] = "cancelled"]
         /\ terminalOrder' = NoteTerminal(job_id, jobs[job_id].status, "cancelled")
         /\ response' = Reply("cancel", job_id, "INTERNAL_ERROR", "200")
         /\ UNCHANGED bots
    ELSE CancelJob(job_id, fetched)

\* POST /api/datasets/generate: created event and started notification
\* between the create and the start of the runner
GeneratePublishing(has_fields, num_examples, published) ==
    IF /\ Delivery(published) = "thrown" /\ has_fields
       /\ num_examples >= 1 /\ num_examples <= MaxNumExamples
    THEN \* the handler's outer catch: the runner is not started
         /\ run.pc = "idle"
         /\ ds' = [NoDataset EXCEPT !.status = "pending",
                                    !.total_batches = TotalBatches(num_examples),
                                    !.target_examples = num_examples]
         /\ run' = [IdleRun EXCEPT !.pc = "returned"]
         /\ UNCHANGED existing
    ELSE CreateGenerationJob(has_fields, num_examples)

\* processGenerationJob: progress event after the write of processing
RunnerStartPublishing(outcome, index_loaded, catch_stored, published) ==
    IF Delivery(published) = "thrown" /\ outcome = "ok"
    THEN RunnerStart("aborted", index_loaded, catch_stored)
    ELSE RunnerStart(outcome, index_loaded, catch_stored)

\* processGenerationJob: progress event and notification after the progress
\* write of a batch; the batch's own catch is the next one out
RunnerPersistPublishing(stored, published) == RunnerPersist(stored)

\* processGenerationJob: updated event and completed notification after the
\* commit
RunnerFinalizePublishing(stored, catch_stored, published) ==
    IF /\ Delivery(published) = "thrown" /\ run.pc = "finalize" /\ stored
       /\ Len(validatedExamples(run.allExamples)) > 0
       /\ validateJSONL(convertToJSONL(validatedExamples(run.allExamples)))
    THEN \* the runner's catch block writes failed over the committed row
         /\ ds' = CatchBlock(CompletedDataset(ds, validatedExamples(run.allExamples)),
                             catch_stored)
         /\ run' = [run EXCEPT !.pc = "returned"]
         /\ UNCHANGED existing
    ELSE RunnerFinalize(stored, catch_stored)

\* one fine-tune job and one generation job of one example, every publish
\* going through or failing
NextPublish ==
    \/ \E shape \in RequestShapes, bot_id \in BotIds \cup {UnknownBot},
          outcome \in SubmitOutcomes, remote_status \in RemoteInitialStatuses,
          published \in BOOLEAN :
            /\ jobs = <<>>
            /\ SubmitPublishing(shape, bot_id, outcome, remote_status, published)
            /\ calls' = Published("create", published)
            /\ UNCHANGED <<genVars, evalVars, inflight, sideVars>>
    \/ \E job_id \in JobIds, fetched \in BOOLEAN, published \in BOOLEAN :
          /\ GetJobPublishing(job_id, fetched, published)
          /\ calls' = Published("get", published)
          /\ UNCHANGED <<genVars, evalVars, inflight, sideVars>>
    \/ \E job_id \in JobIds, fetched \in BOOLEAN, published \in BOOLEAN :
          /\ CancelJobPublishing(job_id, fetched, published)
          /\ calls' = Published("cancel", published)
          /\ UNCHANGED <<genVars, evalVars, inflight, sideVars>>
    \/ \E j \in JobIds : ProviderAdvance(j) /\ UNCHANGED <<genVars, calls, evalVars, inflight, sideVars>>
    \/ \E has_fields \in BOOLEAN, num_examples \in {0, 1}, published \in BOOLEAN :
          /\ GeneratePublishing(has_fields, num_examples, published)
          /\ calls' = Published("generate", published)
          /\ UNCHANGED <<ftVars, other, evalVars, inflight, sideVars>>
    \/ \E outcome \in StartOutcomes, index_loaded \in BOOLEAN, catch_stored \in BOOLEAN,
          published \in BOOLEAN :
          /\ RunnerStartPublishing(outcome, index_loaded, catch_stored, published)
          /\ calls' = Published("start", published)
          /\ UNCHANGED <<ftVars, other, evalVars, inflight, sideVars>>
    \/ \E answer \in TwoJobAnswers : RunnerGenerate(answer) /\ UNCHANGED <<ftVars, calls, other, evalVars, inflight, sideVars>>
    \/ \E stored \in BOOLEAN, published \in BOOLEAN :
          /\ RunnerPersistPublishing(stored, published)
          /\ calls' = Published("persist", published)
          /\ UNCHANGED <<ftVars, other, evalVars, inflight, sideVars>>
    \/ \E stored \in BOOLEAN, catch_stored \in BOOLEAN, published \in BOOLEAN :
          /\ RunnerFinalizePublishing(stored, catch_stored, published)
          /\ calls' = Published("finalize", published)
          /\ UNCHANGED <<ftVars, other, evalVars, inflight, sideVars>>

SpecPublish == Init /\ [][NextPublish]_vars

(* ------------------------------------------------------------------ *)
(* createExampleHash on an example and on a variant of it             *)
(* ------------------------------------------------------------------ *)
\* String.prototype.toUpperCase
UpperChar(c) ==
    CASE c = "a" -> "A"
      [] c = "q" -> "Q"
      [] OTHER   -> c

ToUpperCase(str) == [i \in 1..Len(str) |-> UpperChar(str[i])]

\* the messages examples are made of
HashedMessages ==
    { Msg(role, content) : role \in {"user", "assistant"},
                           content \in { <<"a">>, <<"q", " ", "a">> } }

HashedExamples == UNION { [1..n -> HashedMessages] : n \in 1..MaxMessages }

Orders(n) ==
    { p \in [1..n -> 1..n] : \A i, j \in 1..n : p[i] = p[j] => i = j }

\* a change of one content: in upper case or not, white space put before or
\* after it or not
ContentChanges == [upper : BOOLEAN, pad : {"none", "before", "after"}]

Changed(content, change) ==
    LET cased == IF change.upper THEN ToUpperCase(content) ELSE content
    IN  CASE change.pad = "before" -> <<" ">> \o cased
          [] change.pad = "after"  -> cased \o <<" ", " ">>
          [] OTHER                 -> cased

\* the messages in the order p, each content changed
Variant(messages, p, changes) ==
    [i \in 1..Len(messages) |->
        Msg(messages[p[i]].role, Changed(messages[p[i]].content, changes[i]))]

\* one comparison: the fingerprints of an example and of a variant of it
HashVariant(messages, p, changes) ==
    /\ calls = <<>>
    /\ calls' = <<[messages |-> messages,
                   variant |-> Variant(messages, p, changes),
                   hash |-> createExampleHash(messages),
                   variant_hash |-> createExampleHash(Variant(messages, p, changes))]>>
    /\ UNCHANGED <<ftVars, genVars, evalVars, inflight, sideVars>>

NextHash ==
    /\ calls = <<>>
    /\ \E messages \in HashedExamples :
          \E p \in Orders(Len(messages)),
             changes \in [1..Len(messages) -> ContentChanges] :
              HashVariant(messages, p, changes)

SpecHash == Init /\ [][NextHash]_vars

(* ------------------------------------------------------------------ *)
(* One fine-tune job reconciled by several callers at once            *)
(* ------------------------------------------------------------------ *)
others == <<genVars, calls, evalVars>>

NextConcurrent ==
    \/ \E outcome \in SubmitOutcomes, remote_status \in RemoteInitialStatuses :
          /\ jobs = <<>>
          /\ CreateJob("ok", 1, NoJob, outcome, remote_status)
          /\ UNCHANGED <<others, inflight, sideVars>>
    \/ \E j \in JobIds : ProviderAdvance(j) /\ UNCHANGED <<others, inflight, sideVars>>
    \/ \E c \in Callers, job_id \in JobIds, fetched \in BOOLEAN :
          FetchJob(c, job_id, fetched) /\ UNCHANGED <<others, sideVars>>
    \/ \E c \in Callers : WriteJob(c) /\ UNCHANGED <<others, sideVars>>
    \/ \E c \in Callers : WriteBot(c) /\ UNCHANGED <<others, sideVars>>

SpecConcurrent == Init /\ [][NextConcurrent]_vars

(* ------------------------------------------------------------------ *)
(* The phase timestamps of one job reconciled by several callers      *)
(* ------------------------------------------------------------------ *)
NextTimed ==
    \/ \E outcome \in SubmitOutcomes, remote_status \in RemoteInitialStatuses :
          /\ jobs = <<>>
          /\ CreateJob("ok", 1, NoJob, outcome, remote_status)
          /\ UNCHANGED <<others, inflight, sideVars>>
    \/ \E j \in JobIds : ProviderAdvance(j) /\ UNCHANGED <<others, inflight, sideVars>>
    \/ /\ timing.clock < MaxClock
       /\ \E c \in Callers, job_id \in JobIds, fetched \in BOOLEAN,
             has_created_at \in BOOLEAN :
               FetchJobTimed(c, job_id, fetched, has_created_at)
                   /\ UNCHANGED <<others, autoTests>>
    \/ \E c \in Callers : WriteJobTimed(c) /\ UNCHANGED <<others, autoTests>>
    \/ \E c \in Callers : WriteBot(c) /\ UNCHANGED <<others, sideVars>>

SpecTimed == Init /\ [][NextTimed]_vars

(* ------------------------------------------------------------------ *)
(* The automatic evaluation a reconciliation triggers                 *)
(* ------------------------------------------------------------------ *)
\* prisma.dataset.findFirst over the datasets with content: the generation
\* job's Dataset is the only one there is
FirstDataset == IF ds.content.null THEN NoDataset ELSE ds

\* the test examples read back from the dataset: the lines after the first
\* num_examples - split.test_count that parse
AutoTestExamples(dataset) ==
    IF \/ dataset.content.null
       \/ dataset.content.lines = <<>>
       \/ dataset.test_examples_count <= 0
       \/ dataset.num_examples <= 0
    THEN <<>>
    ELSE LET allLines == dataset.content.lines
             trainingCount == dataset.num_examples - dataset.test_examples_count
             testLines == SubSeq(allLines, trainingCount + 1, Len(allLines))
         IN  Filter(testLines, [i \in 1..Len(testLines) |-> CanParse(testLines[i])])

\* the success branch runs whenever the status fetched is succeeded
AutoTestTriggered(job_id, fetched) ==
    /\ Exists(job_id)
    /\ HasHandle(jobs[job_id])
    /\ fetched
    /\ remote[job_id] = "succeeded"
    /\ RemoteModel(job_id) # NoModel
    /\ AutoTestExamples(FirstDataset) # <<>>

\* GET with the request to /api/fine-tune/test-model it sends off
GetJobTriggering(job_id, fetched) ==
    /\ autoTests[job_id] < MaxAutoTests
    /\ GetJob(job_id, fetched)
    /\ autoTests' = IF AutoTestTriggered(job_id, fetched)
                    THEN [autoTests EXCEPT ![job_id] = @ + 1]
                    ELSE autoTests

\* a generation job of one example or of one batch whose completion calls fail
NextAutoTest ==
    \/ \E outcome \in SubmitOutcomes, remote_status \in RemoteInitialStatuses :
          /\ jobs = <<>>
          /\ CreateJob("ok", 1, NoJob, outcome, remote_status)
          /\ UNCHANGED <<genVars, calls, evalVars, inflight, sideVars>>
    \/ \E j \in JobIds : ProviderAdvance(j)
                             /\ UNCHANGED <<genVars, calls, evalVars, inflight, sideVars>>
    \/ \E job_id \in JobIds, fetched \in BOOLEAN :
          GetJobTriggering(job_id, fetched)
              /\ UNCHANGED <<genVars, calls, evalVars, inflight, timing>>
    \/ \E num_examples \in {1, BatchSize} :
          CreateGenerationJob(TRUE, num_examples)
              /\ UNCHANGED <<ftVars, calls, other, evalVars, inflight, sideVars>>
    \/ RunnerStart("ok", FALSE, TRUE)
           /\ UNCHANGED <<ftVars, calls, other, evalVars, inflight, sideVars>>
    \/ RunnerGenerate([ok |-> FALSE, examples |-> <<>>])
           /\ UNCHANGED <<ftVars, calls, other, evalVars, inflight, sideVars>>
    \/ RunnerPersist(TRUE)
           /\ UNCHANGED <<ftVars, calls, other, evalVars, inflight, sideVars>>
    \/ RunnerFinalize(TRUE, TRUE)
           /\ UNCHANGED <<ftVars, calls, other, evalVars, inflight, sideVars>>

SpecAutoTest == Init /\ [][NextAutoTest]_vars

(***************************************************************************)
(* Claims about the fine-tune job lifecycle                                *)
(***************************************************************************)
StatusRank(s) ==
    CASE s = "pending"          -> 0
      [] s = "validating_files" -> 1
      [] s = "running"          -> 2
      [] OTHER                  -> 3

JobsOfBot(b) == {j \in 1..Len(jobs) : jobs[j].bot_id = b}

\* the job of Bot b whose local status became terminal last (NoJob when none)
LastTerminalJobOf(b) ==
    LET at == {i \in 1..Len(terminalOrder) : terminalOrder[i] \in JobsOfBot(b)}
    IN  IF at = {} THEN NoJob
        ELSE terminalOrder[CHOOSE i \in at : \A k \in at : k <= i]

\* C2: a Bot is training exactly when one of its jobs has a non-terminal local
\* status, and an active Bot's most recent terminal job has succeeded.
C2_BotStatusDerived ==
    \A b \in BotIds :
        /\ bots[b].status = "training"
              <=> \E j \in JobsOfBot(b) : jobs[j].status \in NonTerminalStatuses
        /\ bots[b].status = "active"
              => /\ LastTerminalJobOf(b) # NoJob
                 /\ jobs[LastTerminalJobOf(b)].status = "succeeded"

\* C8: after a submission the provider answered with a non-success status, the
\* job is failed with an error, its Bot is inactive, the caller has the error
\* and the submission was sent once.
C8_SubmitRejected ==
    (response.op = "create" /\ response.given = "non200")
        => LET job == jobs[response.job_id]
           IN  /\ job.status = "failed"
               /\ job.error
               /\ ~HasHandle(job)
               /\ bots[job.bot_id].status = "inactive"
               /\ response.code = "FINE_TUNE_JOB_CREATION_FAILED"
               /\ response.submits = 1

\* C8 witness: a rejected submission while an earlier job of the Bot is running
C8_Witness ==
    /\ response.op = "create"
    /\ response.given = "non200"
    /\ response.job_id = 2
    /\ jobs[1].status = "running"
    /\ bots[jobs[2].bot_id].status = "inactive"

\* C9: once reconciliation has observed a child job succeeded with model M2,
\* its parent's fine_tuned_model_id is M2.
C9_ChildModelReachesParent ==
    (response.op = "get" /\ response.given = "succeeded"
        /\ jobs[response.job_id].parent_job_id # NoJob)
        => jobs[jobs[response.job_id].parent_job_id].fine_tuned_model_id
              = FineTunedModel(response.job_id)

\* C9 witness: the child of a succeeded parent reconciled as succeeded
C9_Witness ==
    /\ response.op = "get"
    /\ response.given = "succeeded"
    /\ jobs[response.job_id].parent_job_id # NoJob
    /\ jobs[jobs[response.job_id].parent_job_id].status = "succeeded"
    /\ jobs[response.job_id].fine_tuned_model_id = FineTunedModel(response.job_id)

RECURSIVE IsDescendant(_, _)
IsDescendant(d, r) ==
    LET parent == jobs[d].parent_job_id
    IN  parent # NoJob /\ (parent = r \/ IsDescendant(parent, r))

\* the descendant of r reconciled as succeeded last (NoJob when none)
LatestSucceededDescendant(r) ==
    LET at == {i \in 1..Len(terminalOrder) :
                  /\ IsDescendant(terminalOrder[i], r)
                  /\ jobs[terminalOrder[i]].status = "succeeded"}
    IN  IF at = {} THEN NoJob
        ELSE terminalOrder[CHOOSE i \in at : \A k \in at : k <= i]

\* C10: once a descendant of a root job has been reconciled as succeeded, the
\* root's fine_tuned_model_id is the model of the descendant that succeeded
\* last, also after the root itself is reconciled again.
C10_RootHoldsLatestModel ==
    \A r \in 1..Len(jobs) :
        (jobs[r].parent_job_id = NoJob /\ LatestSucceededDescendant(r) # NoJob)
            => jobs[r].fine_tuned_model_id
                  = FineTunedModel(LatestSucceededDescendant(r))

\* C11: a submission for a child job has reached the provider only if the
\* parent job it names exists and has local status succeeded.
C11_ChildSubmittedAfterParentSucceeded ==
    (response.op = "create" /\ response.submits = 1
        /\ jobs[response.job_id].parent_job_id # NoJob)
        => /\ Exists(jobs[response.job_id].parent_job_id)
           /\ jobs[jobs[response.job_id].parent_job_id].status = "succeeded"

\* C12: a reconciliation of the job just reconciled, with the same provider
\* answer, leaves every job's status and model (the job's own and its
\* parent's) and the Bot's status and model as the first one left them.
C12_ReconcileTwiceSameResult ==
    [][(response'.op = "get" /\ response'.repeated) => (jobs' = jobs /\ bots' = bots)]_vars

\* C12 witness: a succeeded child with a parent reconciled twice in a row
C12_Witness ==
    /\ response.op = "get"
    /\ response.repeated
    /\ response.given = "succeeded"
    /\ jobs[response.job_id].parent_job_id # NoJob
    /\ bots[jobs[response.job_id].bot_id].status = "active"

\* C13: after a cancellation of a job that holds a provider handle and that
\* the provider accepted, the job's local status is cancelled and its Bot is
\* inactive.
C13_AcceptedCancelTakesEffect ==
    (response.op = "cancel" /\ response.given = "200")
        => /\ HasHandle(jobs[response.job_id])
           /\ jobs[response.job_id].status = "cancelled"
           /\ bots[jobs[response.job_id].bot_id].status = "inactive"
           /\ response.code = "OK"

\* C13 witness: an accepted cancellation of the Bot's second job
C13_Witness ==
    /\ response.op = "cancel"
    /\ response.given = "200"
    /\ response.job_id = 2
    /\ jobs[2].status = "cancelled"
    /\ remote[2] = "cancelled"

\* C14: a cancellation of a job without a provider handle, or one the
\* provider answers with a non-success status, changes no job and no Bot and
\* returns an error.
C14_RefusedCancelChangesNothing ==
    [][(response'.op = "cancel" /\ response'.given \in {"no_handle", "non200"})
          => /\ jobs' = jobs
             /\ bots' = bots
             /\ response'.code \in {"OPENAI_JOB_ID_MISSING", "CANCEL_JOB_FAILED"}]_vars

\* C14 witness: the provider has finished the job, the local record still
\* says running and the Bot training, and the cancel was refused
C14_Witness ==
    /\ response.op = "cancel"
    /\ response.given = "non200"
    /\ response.code = "CANCEL_JOB_FAILED"
    /\ jobs[response.job_id].status = "running"
    /\ bots[jobs[response.job_id].bot_id].status = "training"

\* C15: while a Bot has a job whose local status is not terminal, a
\* bot-update call leaves the Bot's status as the job lifecycle set it.
C15_BotStatusNotSettableWhileTraining ==
    [][\A b \in BotIds :
          (response'.op = "update_bot"
              /\ \E j \in JobsOfBot(b) : jobs[j].status \in NonTerminalStatuses)
              => bots'[b].status = bots[b].status]_vars

\* C27: after a submission the provider answered with a success status and
\* no job id, the job is failed with an error and the Bot is not training.
C27_MalformedAnswerFailsJobAndRevertsBot ==
    (response.op = "create" /\ response.given = "malformed") =>
        /\ jobs[response.job_id].status = "failed"
        /\ jobs[response.job_id].error
        /\ bots[jobs[response.job_id].bot_id].status # "training"

\* the last call was a reconciliation of a job that observed the status
Reconciled(statuses) ==
    /\ response.op = "get"
    /\ response.code = "OK"
    /\ response.given \in statuses

\* C29: after a reconciliation that observed succeeded, the job holds the
\* provider's fine-tuned model id and the Bot is active with that id as its
\* model.
C29_SucceededActivatesBotWithModel ==
    Reconciled({"succeeded"}) =>
        LET job == jobs[response.job_id]
        IN  /\ job.status = "succeeded"
            /\ job.fine_tuned_model_id = FineTunedModel(response.job_id)
            /\ bots[job.bot_id].status = "active"
            /\ bots[job.bot_id].model = FineTunedModel(response.job_id)
            /\ bots[job.bot_id].fine_tuned_model_id = FineTunedModel(response.job_id)

\* C29: the second job of the Bot was observed succeeded and the Bot moved
\* from the first job's model to the second's.
C29_Witness ==
    /\ Reconciled({"succeeded"})
    /\ response.job_id = 2
    /\ jobs[1].status = "succeeded"
    /\ jobs[1].fine_tuned_model_id = FineTunedModel(1)
    /\ bots[1].model = FineTunedModel(2)

\* C30: after a reconciliation that observed failed or cancelled the Bot is
\* inactive; after one that observed pending, validating_files or running it
\* is training.
C30_BotFollowsObservedStatus ==
    /\ Reconciled({"failed", "cancelled"})
          => bots[jobs[response.job_id].bot_id].status = "inactive"
    /\ Reconciled(NonTerminalStatuses)
          => bots[jobs[response.job_id].bot_id].status = "training"

\* C30: a Bot that an earlier job had made active was put to inactive by the
\* reconciliation of a later job observed failed.
C30_Witness ==
    /\ Reconciled({"failed"})
    /\ response.job_id = 2
    /\ jobs[1].status = "succeeded"
    /\ bots[1].model = FineTunedModel(1)
    /\ bots[1].status = "inactive"

\* the Bot status that goes with a terminal job status
BotStatusOf(status) == IF status = "succeeded" THEN "active" ELSE "inactive"

\* C28: once the provider's job is terminal, a reconciliation has written a
\* terminal status and no reconciliation is in progress, the job's status is
\* the provider's and the Bot's status is the one that goes with it.
C28_ConcurrentReconciliationsAgree ==
    \A j \in 1..Len(jobs) :
        ( /\ remote[j] \in TerminalStatuses
          /\ \E k \in 1..Len(terminalOrder) : terminalOrder[k] = j
          /\ NoneInFlight )
        => /\ jobs[j].status = remote[j]
           /\ bots[jobs[j].bot_id].status = BotStatusOf(remote[j])

(***************************************************************************)
(* Claims about dataset generation                                         *)
(***************************************************************************)
GenTerminalStatuses == {"completed", "failed"}

\* C3 as stated: a generation job's status changes only by pending ->
\* processing, processing -> completed or processing -> failed, and a completed
\* or failed status is never changed by the runner or by a later operation.
C3_StatusPendingProcessingTerminal ==
    [][(ds.status # "none" /\ ds'.status # ds.status)
          => <<ds.status, ds'.status>> \in
                {<<"pending", "processing">>, <<"processing", "completed">>,
                 <<"processing", "failed">>}]_vars

\* C3 amended: a generation job's status changes only by pending ->
\* processing, processing -> completed, processing -> failed, or pending ->
\* failed when the runner's first write is refused; a completed or failed
\* status is never changed by the runner or by a later operation.
C3_StatusForwardOrFailedEarly ==
    [][(ds.status # "none" /\ ds'.status # ds.status)
          => <<ds.status, ds'.status>> \in
                {<<"pending", "processing">>, <<"processing", "completed">>,
                 <<"processing", "failed">>, <<"pending", "failed">>}]_vars

\* C3 witness: the runner has returned from a completed job and a PATCH has
\* since replaced the content
C3_Witness ==
    /\ run.pc = "returned"
    /\ ds.status = "completed"
    /\ ds.content \in PatchContents

\* C4: when processGenerationJob has returned, normally or through its catch
\* block, the job's status is completed or failed.
C4_TerminalOnReturn ==
    run.pc = "returned" => ds.status \in GenTerminalStatuses

\* the fingerprints of the examples a JSONL text holds, line by line
LineFingerprints(text) ==
    [i \in 1..Len(text.lines) |-> createExampleHash(JsonParse(text.lines[i]))]

\* C5: in a completed job that loaded the global index, no two examples of
\* the dataset have the same fingerprint and none has a fingerprint found in
\* the content of the dataset completed before it.
C5_FingerprintsUnique ==
    (ds.status = "completed" /\ run.indexLoaded)
        => LET fps == LineFingerprints(ds.content)
           IN  /\ \A i, j \in 1..Len(fps) : i # j => fps[i] # fps[j]
               /\ \A i \in 1..Len(fps) : fps[i] \notin ExistingHashesOf(existing)

\* C6: in a completed job the training and test counts add up to
\* num_examples, the training count is floor(0.8 * num_examples), and the
\* training and test texts are the conversions of the first training-count
\* examples and of the rest, in the order they were accumulated.
C6_SplitEightyTwenty ==
    ds.status = "completed"
        => LET n == ds.num_examples
               t == ds.training_examples_count
           IN  /\ t + ds.test_examples_count = n
               /\ 5 * t <= 4 * n
               /\ 4 * n < 5 * (t + 1)
               /\ n = Len(run.allExamples)
               /\ ds.training_content
                     = Text(convertToJSONL(SubSeq(run.allExamples, 1, t)))
               /\ ds.test_content
                     = Text(convertToJSONL(SubSeq(run.allExamples, t + 1, n)))

\* C6 witness: six examples from two batches, split four and two
C6_Witness ==
    /\ ds.status = "completed"
    /\ run.batch = 2
    /\ ds.num_examples = 6
    /\ ds.training_examples_count = 4
    /\ ds.test_examples_count = 2
    /\ Len(ds.training_content.lines) = 4

LineIsExample(line) ==
    /\ CanParse(line)
    /\ HasRole(JsonParse(line), "user")
    /\ HasRole(JsonParse(line), "assistant")

\* C7: in a completed job every line of content, training_content and
\* test_content parses as JSON and has a user and an assistant message.
C7_EveryLineIsExample ==
    ds.status = "completed"
        => \A text \in {ds.content, ds.training_content, ds.test_content} :
              \A i \in 1..Len(text.lines) : LineIsExample(text.lines[i])

\* the calls of the run of the scenario: batch 1 returns five examples, all
\* new; batch 2 returns five of which three are new; one retry returns two,
\* both new
ScenarioCalls == <<Call(0, 5, 5), Call(1, 5, 3), Call(1, 2, 2)>>

\* C16: a job asked for 10 examples has 2 batches, and when its run made the
\* calls of the scenario it completes with num_examples 10,
\* training_examples_count 8 and test_examples_count 2.
C16_TenExamplesScenario ==
    /\ ds.target_examples = 10 => ds.total_batches = 2
    /\ (ds.target_examples = 10 /\ calls = ScenarioCalls /\ ds.status = "completed")
          => /\ ds.num_examples = 10
             /\ ds.training_examples_count = 8
             /\ ds.test_examples_count = 2

\* C16 witness: the run of the scenario has completed
C16_Witness ==
    /\ ds.target_examples = 10
    /\ calls = ScenarioCalls
    /\ ds.status = "completed"
    /\ run.pc = "returned"

\* C17: generateBatch never returns more examples than the count it was
\* asked for, whatever the completion carries.
C17_BatchNeverExceedsCount ==
    \A i \in 1..Len(calls) : Len(calls[i].result) <= calls[i].count

\* C18: when the completion call ends in a timeout, a provider error or an
\* unparsable body, generateBatch returns the template examples for the
\* count: the i-th has the i-th question (the five taken in turn) from the
\* user and the one answer from the assistant.
C18_FailureGivesTemplateExamples ==
    \A i \in 1..Len(calls) :
        ~calls[i].answer.ok
            => /\ Len(calls[i].result) = calls[i].count
               /\ \A k \in 1..Len(calls[i].result) :
                     calls[i].result[k]
                         = <<Msg("user", FallbackQuestions[((k - 1) % 5) + 1]),
                             Msg("assistant", FallbackAnswer)>>

\* C18 witness: a failed completion call answered with five template examples
C18_Witness ==
    /\ calls # <<>>
    /\ ~calls[1].answer.ok
    /\ calls[1].count = 5
    /\ Len(calls[1].result) = 5

\* C19: in every state of a generation job, its content is non-null exactly
\* when its status is completed.
C19_ContentIffCompleted ==
    ds.status # "none" => (~ds.content.null <=> ds.status = "completed")

\* the set of fingerprints of the lines of a JSONL text
FingerprintSet(text) ==
    {LineFingerprints(text)[i] : i \in 1..Len(text.lines)}

\* C20: a runner keeps the index it loaded at its start: no step of its own
\* after the start changes it, whatever the other job has stored since (so
\* that two jobs that overlap may keep the same example, as the witness
\* shows).
C20_IndexLoadedOnceAtStart ==
    [][(other' = other /\ run.pc \notin {"idle", "start"})
          => run'.existingHashes = run.existingHashes]_vars

\* C20 witness: two jobs have both loaded the index, both accepted an
\* example with the same fingerprint, and both completed with it in their
\* content
C20_Witness ==
    /\ ds.status = "completed"
    /\ other.ds.status = "completed"
    /\ run.indexLoaded
    /\ other.run.indexLoaded
    /\ \E i \in 1..Len(run.allExamples), j \in 1..Len(other.run.allExamples) :
          createExampleHash(run.allExamples[i]) = createExampleHash(other.run.allExamples[j])
    /\ FingerprintSet(ds.content) \cap FingerprintSet(other.ds.content) # {}

(***************************************************************************)
(* Claims about the accuracy evaluation                                    *)
(***************************************************************************)
\* C21: once the evaluation request has returned, the report it created is
\* completed or failed, a failed one carries an error message, and it is
\* never left in testing.
C21_ReportSettledOnReturn ==
    (eval.pc = "returned" /\ report.status # "none")
        => /\ report.status \in {"completed", "failed"}
           /\ report.status = "failed" => report.error # NoError

\* the positions in the request of the examples with both messages
TestablePositions(test_examples) ==
    SelectSeq2([i \in 1..Len(test_examples) |-> i],
               [i \in 1..Len(test_examples) |-> IsTestable(test_examples[i])])

\* C22: a completed evaluation has one result for each test example that has
\* both a user and an assistant message, in their order; the result of an
\* example whose completion call failed is correct = false, similarity = 0,
\* and the examples after it have their own results.
C22_FailedCallRecordedAndRunGoesOn ==
    report.status = "completed" =>
        LET positions == TestablePositions(eval.test_examples)
        IN  /\ Len(report.test_results) = Len(positions)
            /\ \A k \in 1..Len(positions) :
                  /\ report.test_results[k]
                        = ResultOf(eval.test_examples[positions[k]],
                                   eval.outcomes[positions[k]])
                  /\ ~eval.outcomes[positions[k]].ok
                        => /\ report.test_results[k].correct = FALSE
                           /\ report.test_results[k].similarity = Zero

\* C22: the first completion call failed, the second answered with the
\* expected text, and both examples have their results.
C22_Witness ==
    /\ report.status = "completed"
    /\ Len(eval.test_examples) = 2
    /\ Len(report.test_results) = 2
    /\ ~eval.outcomes[1].ok
    /\ report.test_results[1].correct = FALSE
    /\ eval.outcomes[2].ok
    /\ report.test_results[2].correct = TRUE

\* the results whose similarity is at least 0.70
AtThreshold(test_results) ==
    { i \in 1..Len(test_results) : 10 * test_results[i].similarity.num
                                      >= 7 * test_results[i].similarity.den }

\* C23: the accuracy of a completed report is the number of results flagged
\* correct divided by the number of results; for 10 test examples of which
\* exactly 7 have similarity >= 0.70 it is 0.7.
C23_AccuracyIsCorrectOverTotal ==
    (report.status = "completed" /\ report.test_results # <<>>) =>
        /\ report.accuracy.num * Len(report.test_results)
              = Cardinality({ i \in 1..Len(report.test_results) :
                                 report.test_results[i].correct })
                  * report.accuracy.den
        /\ (Len(report.test_results) = 10
                /\ Cardinality(AtThreshold(report.test_results)) = 7)
              => 10 * report.accuracy.num = 7 * report.accuracy.den

\* C23: a completed report of 10 results, 7 of them at or above 0.70 and
\* the other 3 at one half, with accuracy 7/10.
C23_Witness ==
    /\ report.status = "completed"
    /\ Len(report.test_results) = 10
    /\ Cardinality(AtThreshold(report.test_results)) = 7
    /\ \E i \in 1..10 : report.test_results[i].similarity = Ratio(1, 2)
    /\ report.accuracy = Ratio(7, 10)

(***************************************************************************)
(* Claims about the requests                                               *)
(***************************************************************************)
\* the records: jobs, Bots, datasets and reports
records == <<jobs, bots, existing, ds, other, report>>

\* C24: a creating request that fails validation (a fine-tune request with a
\* missing field, an invalid training method or model type, or an unknown
\* Bot; a generation request without title or description or with
\* num_examples outside 1..100000; an evaluation request without model_id or
\* test examples) is answered with an error and leaves every job, Bot,
\* dataset and report as it was.
C24_InvalidRequestChangesNothing ==
    [][ /\ ( /\ response' # response
             /\ response'.op = "create"
             /\ \/ response'.given \in RequestShapes \ {"ok"}
                \/ response'.code = "BOT_NOT_FOUND" )
           => /\ response'.code \in { "MISSING_REQUIRED_FIELDS", "INVALID_TRAINING_METHOD",
                                      "INVALID_MODEL_TYPE", "BOT_NOT_FOUND" }
              /\ UNCHANGED records
        /\ (reply' # reply /\ reply'.invalid)
           => /\ reply'.code \in {"MISSING_REQUIRED_FIELDS", "INVALID_NUM_EXAMPLES"}
              /\ UNCHANGED records ]_vars

\* the publish of the step's handler failed
LastPublisher(op) == calls' # <<>> /\ calls'[1].op = op

C34_RecordedTimestampsAreKept ==
    [][\A j \in JobIds :
          /\ timing.stamps[j].validation_started_at # NoTime
                => timing'.stamps[j].validation_started_at
                       = timing.stamps[j].validation_started_at
          /\ timing.stamps[j].training_started_at # NoTime
                => timing'.stamps[j].training_started_at
                       = timing.stamps[j].training_started_at]_vars

(***************************************************************************)
(* Claims about the automatic evaluation                                   *)
(***************************************************************************)
\* C36: however often a succeeded job is reconciled, the automatic
\* evaluation of the job is triggered at most once.
C36_AutoTestAtMostOncePerJob ==
    \A j \in JobIds : autoTests[j] <= 1

(***************************************************************************)
(* Claims about jobs without a provider job id                             *)
(***************************************************************************)
\* C35: a job without a provider job id is pending or failed; a
\* reconciliation or a cancellation of such a job changes neither a job nor
\* a Bot; and such a job, once failed, stays failed and without an id.
C35_JobWithoutProviderIdIsLeftAlone ==
    [][/\ \A j \in 1..Len(jobs') :
             ~jobs'[j].openai_job_id => jobs'[j].status \in {"pending", "failed"}
       /\ \A j \in 1..Len(jobs) :
             ~jobs[j].openai_job_id =>
                 /\ (response'.op \in {"get", "cancel"} /\ response'.job_id = j)
                        => (jobs' = jobs /\ bots' = bots)
                 /\ jobs[j].status = "failed"
                        => (jobs'[j].status = "failed" /\ ~jobs'[j].openai_job_id)]_vars

\* a job that failed at submission has been asked for, and its cancellation
\* has been asked for earlier or later
C35_Witness ==
    /\ response.op \in {"get", "cancel"}
    /\ response.job_id \in 1..Len(jobs)
    /\ ~jobs[response.job_id].openai_job_id
    /\ jobs[response.job_id].status = "failed"
    /\ response.code \in {"OK", "OPENAI_JOB_ID_MISSING"}
    /\ bots[jobs[response.job_id].bot_id].status = "inactive"

(***************************************************************************)
(* Claims about the counts of a generation job                             *)
(***************************************************************************)
\* C37: a completed generation job's content has num_examples lines, its
\* training_content training_examples_count lines and its test_content
\* test_examples_count lines.
C37_LineCountsEqualExampleCounts ==
    ds.status = "completed" =>
        /\ Len(ds.content.lines) = ds.num_examples
        /\ Len(ds.training_content.lines) = ds.training_examples_count
        /\ Len(ds.test_content.lines) = ds.test_examples_count

\* C38: a batch hands on at most as many examples as were asked of it, and
\* a completed generation job holds at most target_examples examples.
C38_NeverMoreThanRequested ==
    /\ run.pc = "persist" => Len(run.uniqueBatchExamples) <= BatchCount(run.batch)
    /\ ds.status = "completed" => ds.num_examples <= ds.target_examples

(***************************************************************************)
(* Claims about the evaluator's contingency table                          *)
(***************************************************************************)
\* C39: in a completed report the table has no false positives and no false
\* negatives and its true negatives are the results that are not true
\* positives; precision and recall are 1 when some result is correct and 0
\* when none is.
C39_NoFalsePositivesOrNegatives ==
    report.status = "completed" =>
        LET testResults == report.test_results
            someCorrect == \E i \in 1..Len(testResults) : testResults[i].correct
            IsOne(ratio) == ratio.den > 0 /\ ratio.num = ratio.den
            IsZero(ratio) == ratio.den > 0 /\ ratio.num = 0
        IN  /\ testResults # <<>> =>
                   /\ report.confusion_matrix.false_positives = 0
                   /\ report.confusion_matrix.false_negatives = 0
                   /\ report.confusion_matrix.true_negatives
                          = Len(testResults) - report.confusion_matrix.true_positives
            /\ testResults = <<>> => report.confusion_matrix = EmptyObject
            /\ IF someCorrect
               THEN IsOne(report.precision) /\ IsOne(report.recall)
               ELSE IsZero(report.precision) /\ IsZero(report.recall)

\* a completed report with a correct result, and with one that overlaps the
\* expected answer and is not correct
C39_Witness ==
    /\ report.status = "completed"
    /\ \E i \in 1..Len(report.test_results) : report.test_results[i].correct
    /\ \E i \in 1..Len(report.test_results) :
          /\ ~report.test_results[i].correct
          /\ report.test_results[i].similarity.num > 0
    /\ report.confusion_matrix.true_negatives > 0

(***************************************************************************)
(* Claims about the generateBatch calls of a run                           *)
(***************************************************************************)
\* the calls written down for batch b
CallsOfBatch(b) == { i \in 1..Len(calls) : calls[i].batch = b }

\* C31: a batch has one call for the whole batch count and at most 3 more;
\* every further call is made while the batch holds fewer unique examples
\* than its count and asks for exactly the count minus the examples held.
C31_RetriesAskForTheShortfall ==
    /\ \A b \in 0..ds.total_batches : Cardinality(CallsOfBatch(b)) <= 4
    /\ \A i \in 1..Len(calls) :
          LET requested == IF BatchSize < ds.target_examples - (BatchSize * calls[i].batch)
                           THEN BatchSize
                           ELSE ds.target_examples - (BatchSize * calls[i].batch)
          IN  IF i = 1 \/ calls[i - 1].batch # calls[i].batch
              THEN calls[i].count = requested /\ calls[i].held = 0
              ELSE /\ calls[i].held < requested
                   /\ calls[i].count = requested - calls[i].held

\* a batch of a returned run that took all four calls, the last of them for
\* a part of the batch only
C31_Witness ==
    /\ run.pc = "returned"
    /\ \E b \in 0..ds.total_batches :
          /\ Cardinality(CallsOfBatch(b)) = 4
          /\ \E i \in CallsOfBatch(b) : calls[i].held > 0 /\ calls[i].count > 1

Usable(allExamples) ==
    { i \in 1..Len(allExamples) : ConvertKeeps(allExamples[i]) }

\* C32: when the first update and the commit are stored, the run ends failed
\* exactly when none of the examples it accumulated is usable; with one
\* usable example or more it ends completed, whatever the batches fell
\* short by, whichever progress writes threw, and however many examples
\* were dropped
C32_FailsOnlyWithoutUsableExamples ==
    [][ (run.pc = "finalize" /\ run'.pc = "returned")
            => /\ ds'.status \in {"completed", "failed"}
               /\ (ds'.status = "failed") <=> (Usable(run.allExamples) = {})
               /\ (ds'.status = "completed") <=> (Usable(run.allExamples) # {}) ]_vars

\* a completed run that fell short of its target, lost a progress write and
\* holds an example that has no line
C32_Witness ==
    /\ run.pc = "returned"
    /\ ds.status = "completed"
    /\ Len(run.allExamples) < ds.target_examples
    /\ ds.current_batch < run.batch
    /\ Usable(run.allExamples) # DOMAIN run.allExamples

(* ------------------------------------------------------------------ *)
(* C33                                                                *)
(* ------------------------------------------------------------------ *)
\* C33, without the value of progress: after a batch the stored current_batch
\* is the number of batches done and generated_count the number of examples
\* held; during a run current_batch, progress and generated_count never
\* decrease, current_batch is at most total_batches, progress is within
\* 0..100 and a completed job has progress 100
C33_CountersAdvance ==
    [][ /\ (run.pc = "persist" /\ run'.pc # "persist")
            => /\ ds'.current_batch = run'.batch
               /\ ds'.generated_count = Len(run'.allExamples)
        /\ (run.pc # "idle")
            => /\ ds'.current_batch >= ds.current_batch
               /\ ds'.progress >= ds.progress
               /\ ds'.generated_count >= ds.generated_count
        /\ ds'.current_batch <= ds'.total_batches
        /\ ds'.progress \in 0..100
        /\ (ds'.status = "completed") => (ds'.progress = 100) ]_vars

\* C33: after each batch the stored progress is
\* floor(current_batch / total_batches * 100)
C33_ProgressIsThePercentageDone ==
    [][ (run.pc = "persist" /\ run'.pc # "persist")
            => ds'.progress = (ds'.current_batch * 100) \div ds'.total_batches ]_vars

====
